---- MODULE Spec2Model ----
(***************************************************************************)
(* playwright-service: the /analyze request handler, the Browserless      *)
(* script it builds (login orchestrator and page loop), the regex          *)
(* extractor, deduplicateFeatures and the two test-case synthesizers.     *)
(*                                                                         *)
(* The repository holds four server variants, all exposing POST /analyze: *)
(*   "index"    src/index.js                  (Chromium API, logs)        *)
(*   "part000"  src/unnamed/part_000:310-1046 (Chromium API, pages key)   *)
(*   "part001"  src/unnamed/part_001          (Chromium API, no verify)   *)
(*   "simple"   src/index-simple.js and src/unnamed/part_000:1-308        *)
(*              (Browserless /content API, regex extraction, dedup)       *)
(* One request is modelled from its arrival to its response.              *)
(***************************************************************************)
EXTENDS Integers, Sequences, FiniteSets, TLC

VARIABLES
    variant,        \* which server file handles the request
    token,          \* BROWSERLESS_TOKEN is configured
    body,           \* req.body
    pc,             \* handler position: start, script, result, loop, done
    spc,            \* script position: begin, probe, fill, verify, loop, end
    targetUrls,     \* targetUrls / urls of the script
    idx,            \* loop variable i (1-based)
    features,       \* features (script) / allFeatures (simple)
    uniqueFeatures, \* uniqueFeatures of the simplified server
    loginSuccess,   \* loginSuccess of the script
    lstate,         \* login orchestrator state
    usernameInput,  \* index of the matched username selector, 0 = null
    passwordInput,  \* index of the matched password selector, 0 = null
    typed,          \* fields that have been typed into
    submits,        \* submit actions performed, in order
    postSubmit,     \* what the document shows after the submit settled
    loginPage,      \* the login page the selector lists were probed on
    visited,        \* target URLs handed to page.goto / fetch, in order
    pageLog,        \* per visited page: its outcome
    attemptLog,     \* per visited page of a traced run: the extraction attempts made
    rendered,       \* per extracted page: its url, document and raw features
    result,         \* the script's return value (response.json())
    responses,      \* responses sent on res
    backendCalls,   \* fetch calls to the Browserless backend
    timedOut,       \* AbortSignal.timeout fired
    requests,       \* two requests in progress at once: per request its position
    heap            \* the arrays and sets the calls in progress allocated

vars == <<variant, token, body, pc, spc, targetUrls, idx, features, uniqueFeatures,
          loginSuccess,
          lstate, usernameInput, passwordInput, typed, submits, postSubmit, loginPage,
          visited, pageLog, attemptLog, rendered, result, responses, backendCalls, timedOut,
          requests, heap>>

-----------------------------------------------------------------------------
(* Bounds of the model *)

MaxUrls == 2

-----------------------------------------------------------------------------
(* Values *)

Undef == "undefined"

Variants == {"index", "part000", "part001", "simple"}

Chromium == {"index", "part000", "part001"}

PageUrls == {"p1", "p2"}

Falsy(s) == s \in {Undef, ""}

Min(a, b) == IF a < b THEN a ELSE b

SeqsUpTo(S, n) == UNION {[1..k -> S] : k \in 0..n}

\* An optional array of the request body: def = FALSE is a missing key.
NoArray == [def |-> FALSE, val |-> <<>>]

SomeArray(s) == [def |-> TRUE, val |-> s]

NoLogin == [present |-> FALSE, loginUrl |-> Undef, username |-> Undef,
            password |-> Undef, testUsername |-> Undef, testPassword |-> Undef]

LoginCfg(lu, u, p, tu, tp) ==
    [present |-> TRUE, loginUrl |-> lu, username |-> u, password |-> p,
     testUsername |-> tu, testPassword |-> tp]

LoginConfigs ==
    { NoLogin,
      LoginCfg("login", "alice", "secret", Undef, Undef),
      LoginCfg("login", Undef, Undef, "alice", "secret"),
      LoginCfg(Undef, "alice", "secret", Undef, Undef),
      LoginCfg("login", "alice", Undef, Undef, Undef) }

Body(url, urls, pages, loginConfig) ==
    [url |-> url, urls |-> urls, pages |-> pages, loginConfig |-> loginConfig]

UrlLists == {NoArray} \cup {SomeArray(s) : s \in SeqsUpTo(PageUrls, MaxUrls)}

\* The request bodies: every url / urls combination without a loginConfig,
\* a urls list whose only entry is blank, every loginConfig with one or two
\* targets, and (part_000) the pages key.
Bodies(v) ==
    {Body(u, l, NoArray, NoLogin) : u \in {Undef, "p1"}, l \in UrlLists}
    \cup {Body(Undef, SomeArray(<<"">>), NoArray, NoLogin)}
    \cup {Body("p1", l, NoArray, c) :
            l \in {NoArray, SomeArray(<<"p2", "p1">>)}, c \in LoginConfigs}
    \cup IF v = "part000"
           THEN {Body(u, l, SomeArray(<<"p2">>), NoLogin) :
                    u \in {Undef, "p1"}, l \in {NoArray, SomeArray(<<"p1">>)}}
           ELSE {}

-----------------------------------------------------------------------------
(* Documents: a rendered page is a sequence of elements in document order *)

Elem(tag, text, tlen, href, itype, name, nInputs, signals) ==
    [tag |-> tag, text |-> text, tlen |-> tlen, href |-> href, itype |-> itype,
     name |-> name, nInputs |-> nInputs, signals |-> signals, attrs |-> <<>>]

Link(text, tlen, href) == Elem("a", text, tlen, href, "", "", 0, {})

Button(text, tlen) == Elem("button", text, tlen, "", "", "", 0, {})

Input(itype, name) == Elem("input", "", 0, "", itype, name, 0, {})

Form(nInputs, signals) == Elem("form", "", 0, "", "", "", nInputs, signals)

Attr(name, value) == [name |-> name, value |-> value]

\* The attribute names in which the text type= occurs, and those in which
\* name= occurs: the patterns are not anchored at the start of a name.
TypeLike == {"type", "data-type"}

NameLike == {"name", "data-name"}

\* <input[^>]+type=["']([^"']+)["'][^>]*> : the greedy [^>]+ makes the
\* capture the value that follows the last type= of the tag.
InputTypeOf(attrs) ==
    LET at == {i \in 1..Len(attrs) : attrs[i].name \in TypeLike}
    IN  IF at = {} THEN ""
        ELSE attrs[CHOOSE i \in at : \A j \in at : j <= i].value

\* match[0].match(/name=["']([^"']+)["']/) : the first name= of the tag,
\* 'unnamed' when there is none.
InputNameOf(attrs) ==
    LET at == {i \in 1..Len(attrs) : attrs[i].name \in NameLike}
    IN  IF at = {} THEN "unnamed"
        ELSE attrs[CHOOSE i \in at : \A j \in at : j >= i].value

\* An <input> tag written with the given attributes, in the given order.
InputTag(attrs) ==
    [Input(InputTypeOf(attrs), InputNameOf(attrs)) EXCEPT !.attrs = attrs]

HashHrefs == {"#top"}

JsHrefs == {"javascript:void(0)"}

DocEmpty == <<>>

DocNav == << Form(2, {"email", "password"}), Link("Home", 4, "/home"),
             Button("Save", 4) >>

DocDup == << Button("Save", 4), Button("Save", 4), Input("text", "q") >>

DocInert == << Link("Top", 3, "#top"), Form(0, {}) >>

Docs == {DocEmpty, DocNav, DocDup, DocInert}

-----------------------------------------------------------------------------
(* Features *)

Feature(type, text, href, url, fingerprint, formType, purpose, nInputs) ==
    [type |-> type, text |-> text, href |-> href, url |-> url,
     fingerprint |-> fingerprint, formType |-> formType, purpose |-> purpose,
     nInputs |-> nInputs]

\* The elements of s at the positions in I, in order.
AtPositions(s, I) ==
    [k \in 1..Cardinality(I) |->
        s[CHOOSE i \in I : Cardinality({j \in I : j < i}) = k - 1]]

FirstN(s, n) == SubSeq(s, 1, Min(n, Len(s)))

FormCap == 5

ButtonCap(v) == IF v = "part000" THEN 30 ELSE 15

LinkCap(v) == IF v = "part000" THEN 25 ELSE 15

ButtonTextLimit(v) == IF v = "part000" THEN 150 ELSE 50

LinkTextLimit(v) == IF v = "part000" THEN 100 ELSE 50

\* The form classification cascade of the page.evaluate extractor.
formType(signals) ==
    IF "email" \in signals /\ "password" \in signals /\ "confirm" \notin signals
      THEN "login"
    ELSE IF "search" \in signals \/ "query" \in signals THEN "search"
    ELSE IF "card" \in signals \/ "payment" \in signals THEN "payment"
    ELSE IF "register" \in signals \/ "signup" \in signals THEN "registration"
    ELSE "data-entry"

formPurpose(ft) ==
    CASE ft = "login" -> "Login Form"
      [] ft = "search" -> "Search Form"
      [] ft = "payment" -> "Payment Form"
      [] ft = "registration" -> "Registration Form"
      [] OTHER -> "Data Entry Form"

IsFormEl(e) == e.tag = "form"

IsButtonEl(e) == e.tag = "button" \/ (e.tag = "input" /\ e.itype \in {"button", "submit"})

IsLinkEl(e) == e.tag = "a" /\ e.href # Undef

HrefOk(href) == ~Falsy(href) /\ href \notin HashHrefs /\ href \notin JsHrefs

\* forms.forEach: the first 5 forms, those with at least one input.
ExtractForms(doc, pageUrl) ==
    LET forms == FirstN(SelectSeq(doc, IsFormEl), FormCap)
        kept == SelectSeq(forms, LAMBDA e : e.nInputs > 0)
    IN  [i \in 1..Len(kept) |->
            Feature("form", "", "", pageUrl, <<>>, formType(kept[i].signals),
                    formPurpose(formType(kept[i].signals)), kept[i].nInputs)]

\* Virtual forms of part_000: bare inputs outside any form.
ExtractVirtualForms(v, doc, pageUrl) ==
    LET bare == SelectSeq(doc, LAMBDA e :
                    e.tag = "input" /\ e.itype \in {"email", "text", "password"})
        hasEmail == \E i \in 1..Len(bare) :
                        bare[i].itype = "email" \/ "mail" \in bare[i].signals
        hasPassword == \E i \in 1..Len(bare) :
                        bare[i].itype = "password" \/ "password" \in bare[i].signals
    IN  IF v = "part000" /\ Len(bare) >= 2 /\ hasEmail /\ hasPassword
            /\ Len(SelectSeq(doc, IsFormEl)) = 0
          THEN << Feature("form", "", "", pageUrl, <<>>, "login",
                          "Login Form (Virtual)", Len(bare)) >>
          ELSE <<>>

\* part_000 keeps, per page, the first button / link of each display text.
FirstByText(v, s) ==
    IF v = "part000"
      THEN AtPositions(s, {i \in 1..Len(s) :
                              \A j \in 1..(i - 1) : s[j].text # s[i].text})
      ELSE s

ExtractButtons(v, doc, pageUrl) ==
    LET buttons == FirstN(SelectSeq(doc, IsButtonEl), ButtonCap(v))
        valid == SelectSeq(buttons, LAMBDA e : e.tlen > 0 /\ e.tlen < ButtonTextLimit(v))
        kept == FirstByText(v, valid)
    IN  [i \in 1..Len(kept) |->
            Feature("button", kept[i].text, "", pageUrl, <<>>, "", "", 0)]

ExtractLinks(v, doc, pageUrl) ==
    LET links == FirstN(SelectSeq(doc, IsLinkEl), LinkCap(v))
        valid == SelectSeq(links, LAMBDA e :
                    HrefOk(e.href) /\ e.tlen > 0 /\ e.tlen < LinkTextLimit(v))
        kept == FirstByText(v, valid)
    IN  [i \in 1..Len(kept) |->
            Feature("link", kept[i].text, kept[i].href, pageUrl, <<>>, "", "", 0)]

\* page.evaluate((pageUrl) => ...) of the Chromium variants.
pageFeatures(v, doc, pageUrl) ==
    ExtractForms(doc, pageUrl) \o ExtractVirtualForms(v, doc, pageUrl)
        \o ExtractButtons(v, doc, pageUrl) \o ExtractLinks(v, doc, pageUrl)

\* extractFeaturesFromHTML: links, then buttons, then inputs; the fingerprint
\* is built from the element's kind, its text and its structural attribute.
\* A text is the tuple of the parts the template string joins.
extractFeaturesFromHTML(doc, url) ==
    LET links == SelectSeq(doc, LAMBDA e :
                    e.tag = "a" /\ ~Falsy(e.href) /\ e.tlen > 0
                    /\ e.href \notin JsHrefs /\ e.href \notin HashHrefs)
        buttons == SelectSeq(doc, LAMBDA e : e.tag = "button" /\ e.tlen > 0)
        inputs == SelectSeq(doc, LAMBDA e : e.tag = "input" /\ ~Falsy(e.itype))
    IN  [i \in 1..Len(links) |->
            Feature("link", <<links[i].text>>, links[i].href, url,
                    <<"link", links[i].text, links[i].href>>, "", "", 0)]
        \o [i \in 1..Len(buttons) |->
            Feature("button", <<buttons[i].text>>, "", url,
                    <<"button", buttons[i].text>>, "", "", 0)]
        \o [i \in 1..Len(inputs) |->
            Feature("input", <<"Input", inputs[i].itype, inputs[i].name>>, "", url,
                    <<"input", inputs[i].itype, inputs[i].name>>, "", "", 0)]

-----------------------------------------------------------------------------
(* Reconciliation and synthesis *)

\* A faulty loop body, for comparison: a repeated fingerprint is forgotten.
DedupStepForgetful(st, feature) ==
    IF feature.fingerprint \notin st.seen
      THEN [seen |-> st.seen \cup {feature.fingerprint},
            unique |-> Append(st.unique, feature)]
      ELSE [seen |-> st.seen \ {feature.fingerprint}, unique |-> st.unique]

\* The body of for (const feature of features) in deduplicateFeatures.
DedupStep(st, feature) ==
    IF feature.fingerprint \notin st.seen
      THEN [seen |-> st.seen \cup {feature.fingerprint},
            unique |-> Append(st.unique, feature)]
      ELSE st

\* The loop over fs in order, carrying seen and unique in st: the list is
\* walked in two halves, and the state after the first half is compared
\* once so that it is computed before the second half starts (the
\* evaluation depth then grows with the logarithm of the length).
RECURSIVE DedupFrom(_, _)
DedupFrom(fs, st) ==
    IF Len(fs) = 0 THEN st
    ELSE IF Len(fs) = 1 THEN DedupStep(st, fs[1])
    ELSE LET half == Len(fs) \div 2
             first == DedupFrom(SubSeq(fs, 1, half), st)
         IN  IF first = st
               THEN DedupFrom(SubSeq(fs, half + 1, Len(fs)), st)
               ELSE DedupFrom(SubSeq(fs, half + 1, Len(fs)), first)

DedupLoop(fs, seen, unique) ==
    DedupFrom(fs, [seen |-> seen, unique |-> unique]).unique

\* A faulty deduplicateFeatures, for comparison: seen is never consulted.
KeepEveryFeature(fs) == fs

deduplicateFeatures(fs) == DedupLoop(fs, {}, <<>>)

TestCase(title, kind, priority, category, scope, affectedPages, pageUrl) ==
    [title |-> title, kind |-> kind, priority |-> priority, category |-> category,
     scope |-> scope, affectedPages |-> affectedPages, pageUrl |-> pageUrl]

\* generateTestCases of the simplified server: one record per unique feature.
SimpleTestCase(feature) ==
    TestCase(<<"Test", feature.type, feature.text>>, feature.type, "medium",
             "functional", "Page-specific", <<feature.url>>, feature.url)

generateTestCases(fs) == [i \in 1..Len(fs) |-> SimpleTestCase(fs[i])]

ButtonTestLimit == 30

LinkTestLimit == 40

TotalTestLimit == 50

FormTestCase(f) ==
    TestCase(<<"Test", f.purpose>>, "form",
             IF f.formType \in {"login", "registration"} THEN "High" ELSE "Medium",
             CASE f.formType = "login" -> "Authentication"
               [] f.formType = "registration" -> "User Management"
               [] f.formType = "search" -> "Search"
               [] OTHER -> "Forms",
             "", <<>>, f.url)

ButtonTestCase(f) ==
    TestCase(<<"Test", f.text, "button functionality">>, "button", "Medium",
             "User Interaction", "", <<>>, f.url)

LinkTestCase(f) ==
    TestCase(<<"Test", f.text, "navigation">>, "link", "Low", "Navigation",
             "", <<>>, f.url)

\* The key a feature is remembered under in the synthesizer's seen set: the
\* template strings `form-${purpose}-${pageUrl}`, `button-${text}-${pageUrl}`
\* and `link-${text}-${pageUrl}`.
SeenKey(f) ==
    IF f.type = "form" THEN "form-" \o f.purpose \o "-" \o f.url
    ELSE f.type \o "-" \o f.text \o "-" \o f.url

\* A faulty ButtonCapReached, for comparison: the test for the cap is left out.
ButtonCapNever(tests) == FALSE

\* tests.length >= 30, the second half of the button guard.
ButtonCapReached(tests) == Len(tests) >= ButtonTestLimit

\* A faulty LinkCapReached, for comparison: === written for >=.
LinkCapExact(tests) == Len(tests) = LinkTestLimit

\* tests.length >= 40, the second half of the link guard.
LinkCapReached(tests) == Len(tests) >= LinkTestLimit

\* The body of features.forEach in generateTestCasesFromFeatures.
SynthStep(st, f) ==
    LET key == SeenKey(f)
        tests == st.tests
        seen == st.seen
    IN  CASE f.type = "form" ->
               IF key \in seen THEN st
               ELSE [tests |-> Append(tests, FormTestCase(f)), seen |-> seen \cup {key}]
          [] f.type = "button" ->
               IF key \in seen \/ ButtonCapReached(tests) THEN st
               ELSE [tests |-> Append(tests, ButtonTestCase(f)), seen |-> seen \cup {key}]
          [] f.type = "link" ->
               IF key \in seen \/ LinkCapReached(tests) THEN st
               ELSE [tests |-> Append(tests, LinkTestCase(f)), seen |-> seen \cup {key}]
          [] OTHER -> st

\* features.forEach, carrying tests and seen in st; walked in two halves
\* like the loop of deduplicateFeatures.
RECURSIVE SynthFrom(_, _)
SynthFrom(fs, st) ==
    IF Len(fs) = 0 THEN st
    ELSE IF Len(fs) = 1 THEN SynthStep(st, fs[1])
    ELSE LET half == Len(fs) \div 2
             first == SynthFrom(SubSeq(fs, 1, half), st)
         IN  IF first = st
               THEN SynthFrom(SubSeq(fs, half + 1, Len(fs)), st)
               ELSE SynthFrom(SubSeq(fs, half + 1, Len(fs)), first)

SynthLoop(fs, tests, seen) ==
    SynthFrom(fs, [tests |-> tests, seen |-> seen]).tests

generateTestCasesFromFeatures(fs) == FirstN(SynthLoop(fs, <<>>, {}), TotalTestLimit)

-----------------------------------------------------------------------------
(* Inputs around the caps and the keywords: large documents, documents of  *)
(* one classified form, and the feature lists a long run of pages returns  *)

\* Large documents: how far past a cap their element counts go.
Extra == 1

\* How many of the keywords below one form's field names hold at most.
MaxSignals == 2

\* The keywords the classification of the specification looks for in the
\* field names of a form.
FormKeywords ==
    {"email", "password", "confirm", "search", "query", "card", "payment", "cvv",
     "register", "signup", "comment", "message", "feedback"}

Table == Elem("table", "", 0, "", "", "", 0, {})

\* A button whose text holds the given keywords.
KeywordButton(text, tlen, signals) == Elem("button", text, tlen, "", "", "", 0, signals)

\* n buttons / links of distinct texts; n forms of one field each.
ButtonsDoc(n) == [i \in 1..n |-> Button("b" \o ToString(i), 2)]

LinksDoc(n) == [i \in 1..n |-> Link("l" \o ToString(i), 2, "/l" \o ToString(i))]

FormsDoc(n) == [i \in 1..n |-> Form(1, IF i % 2 = 0 THEN {"search"} ELSE {})]

\* A page with a data-entry form, a table and the buttons of a record list.
DocCrud == << Form(2, {}), Table, KeywordButton("Add item", 8, {"add"}),
              KeywordButton("Delete", 6, {"delete"}) >>

\* A shop page: a search form and the button "Add to Cart".
DocShop == << Form(1, {"search"}), KeywordButton("Add to Cart", 11, {"add"}),
              KeywordButton("Add to filter", 13, {"add", "filter"}),
              KeywordButton("OK", 2, {}) >>

\* The documents of one form whose field names hold the given keywords.
FormDocs ==
    {<<Form(2, S)>> : S \in {T \in SUBSET FormKeywords : Cardinality(T) <= MaxSignals}}
        \cup {<<Form(3, {"email", "password", "confirm"})>>,
              <<Form(4, {"email", "password", "confirm", "register"})>>}

\* A button whose attributes cannot be read (reading them throws).
ThrowingButton(text, tlen) == Elem("button", text, tlen, "", "throws", "", 0, {})

\* A page with one such button between a form, a button and a link.
DocThrowing == << Form(1, {"search"}), Button("Save", 4), ThrowingButton("Bad", 3),
                  Link("Home", 4, "/home") >>

\* Pages of a single-page application: credential inputs outside any form.
PlaceholderInput(itype, name, signals) == Elem("input", "", 0, "", itype, name, 0, signals)

BareInputDocs ==
    { << Input("email", "email"), Input("password", "password") >>,
      << PlaceholderInput("text", "user", {"mail"}), Input("password", "pw") >>,
      << Form(1, {"search"}), Input("email", "email"), Input("password", "password") >>,
      << Input("email", "email"), Input("text", "name") >>,
      << Input("text", "name"), Input("password", "pw") >>,
      << Input("password", "pw") >>,
      << Input("checkbox", "remember"), Input("password", "pw") >> }

\* Pages of the fetch variant with one <input> written twice, its attributes
\* in two orders.
AttrOrderDocs ==
    { << InputTag(<<Attr("type", "text"), Attr("name", "q")>>),
         InputTag(<<Attr("name", "q"), Attr("type", "text")>>) >>,
      << InputTag(<<Attr("name", "q"), Attr("data-name", "x"), Attr("type", "text")>>),
         InputTag(<<Attr("data-name", "x"), Attr("name", "q"), Attr("type", "text")>>) >>,
      << InputTag(<<Attr("type", "text"), Attr("data-type", "x")>>),
         InputTag(<<Attr("data-type", "x"), Attr("type", "text")>>) >> }

\* Documents around the caps of the extractors and of the synthesizers.
LargeDocs(v) ==
    LET sizes == {FormCap, ButtonCap(v), LinkCap(v), ButtonTestLimit, TotalTestLimit}
    IN  {ButtonsDoc(n + e) : n \in sizes, e \in {0, Extra}}
        \cup {LinksDoc(n + e) : n \in sizes, e \in {0, Extra}}
        \cup {FormsDoc(n + e) : n \in {FormCap}, e \in {0, Extra}}
        \cup {<<Button("", 0)>> \o ButtonsDoc(ButtonCap(v)),
              FormsDoc(FormCap) \o ButtonsDoc(ButtonCap(v) + Extra)
                  \o LinksDoc(LinkCap(v) + Extra),
              DocCrud, DocShop, DocThrowing}
        \cup FormDocs
        \cup BareInputDocs
        \cup (IF v = "simple" THEN AttrOrderDocs ELSE {})

\* The features a long run of pages returns: five forms of different
\* purposes per page, and buttons and links of distinct texts.
FormTypes == <<"data-entry", "login", "search", "payment", "registration">>

PageOf(i, perPage) == "p" \o ToString(((i - 1) \div perPage) + 1)

NthFeature(kind, i) ==
    CASE kind = "form" ->
            Feature("form", "", "", PageOf(i, 5), <<>>, FormTypes[((i - 1) % 5) + 1],
                    formPurpose(FormTypes[((i - 1) % 5) + 1]), 1)
      [] kind = "button" ->
            Feature("button", "b" \o ToString(i), "", PageOf(i, 15), <<>>, "", "", 0)
      [] OTHER ->
            Feature("link", "l" \o ToString(i), "/l" \o ToString(i), PageOf(i, 15),
                    <<>>, "", "", 0)

\* n features of one kind, numbered from + 1 .. from + n.
Segment(kind, from, n) == [i \in 1..n |-> NthFeature(kind, from + i)]

\* Buttons and links that differ in text or page and share a template key,
\* and features that agree on kind, text and page.
AlikeFeatures ==
    { << Feature("button", "Save-p1", "", "p2", <<>>, "", "", 0),
         Feature("button", "Save", "", "p1-p2", <<>>, "", "", 0) >>,
      << Feature("button", "Save", "", "p1", <<>>, "", "", 0),
         Feature("link", "Save", "/save", "p1", <<>>, "", "", 0),
         Feature("button", "Save", "", "p2", <<>>, "", "", 0),
         Feature("link", "Save", "/store", "p1", <<>>, "", "", 0),
         Feature("button", "Save", "", "p1", <<>>, "", "", 0),
         Feature("form", "", "", "p1", <<>>, "search", "Search Form", 1),
         Feature("form", "", "", "p1", <<>>, "search", "Search Form", 2) >> }

\* The feature lists handed to the synthesizer: a forms, b buttons, c links,
\* then d more forms, one more button and one more link.
FeatureLists ==
    { Segment("form", 0, a) \o Segment("button", 0, b) \o Segment("link", 0, c)
        \o Segment("form", a, d) \o Segment("button", b, 1) \o Segment("link", c, 1) :
        a \in {0, 1},
        b \in {0, ButtonTestLimit - 1, ButtonTestLimit + Extra},
        c \in {0, LinkTestLimit - ButtonTestLimit - 1, LinkTestLimit - ButtonTestLimit + 1,
               LinkTestLimit + Extra},
        d \in {0, 1, TotalTestLimit - LinkTestLimit + 1, TotalTestLimit + Extra} }
    \cup AlikeFeatures

-----------------------------------------------------------------------------
(* The login page and the selector lists of the login orchestrator.  A     *)
(* selector is modelled by the attribute it looks at; the login page by    *)
(* the attributes its username and password fields can be found by.        *)

usernameSelectors(v) ==
    CASE v = "index" ->
            << "name", "name", "name", "name", "name", "type", "name*", "name*",
               "placeholder", "placeholder", "placeholder", "placeholder",
               "placeholder", "id", "id", "id", "id", "aria", "aria", "aria" >>
      [] v = "part000" ->
            << "name", "name", "name", "name", "name", "type",
               "placeholder", "placeholder", "placeholder", "placeholder",
               "placeholder", "placeholder", "placeholder", "placeholder",
               "id", "id", "id", "id", "class", "class", "class",
               "type", "fallback" >>
      [] OTHER ->
            << "name", "name", "type", "placeholder", "placeholder", "id", "id" >>

passwordSelectors(v) ==
    CASE v = "index" ->
            << "name", "name", "name", "name", "name", "type", "id", "id", "id",
               "id", "placeholder", "placeholder", "placeholder", "aria", "aria" >>
      [] v = "part000" ->
            << "name", "name", "name", "name", "type", "placeholder",
               "placeholder", "placeholder", "placeholder", "id", "id", "id",
               "class", "class", "type" >>
      [] OTHER -> << "name", "type", "id" >>

\* for (const selector of selectors) { try { el = await page.$(selector);
\* if (el) break; } catch (e) {} }: the index of the first selector that
\* matches without throwing, 0 when the list is exhausted.
Probe(selectors, matching, throwing) ==
    LET hits == {i \in 1..Len(selectors) :
                    selectors[i] \in matching /\ selectors[i] \notin throwing}
    IN  IF hits = {} THEN 0 ELSE CHOOSE i \in hits : \A j \in hits : i <= j

LoginPages ==
    [ user : {{}, {"name"}, {"placeholder", "id"}},
      pass : {{}, {"name"}, {"type", "id"}},
      throwing : {{}, {"name"}},
      submit : {"selector", "generic", "none"} ]

\* Login pages on which selectors of several kinds find a field.
ManyFieldPages ==
    [ user : {{}, {"name"}, {"type", "placeholder"}, {"type", "name*"},
              {"placeholder", "fallback"}},
      pass : {{}, {"name"}, {"type", "placeholder"}, {"type", "id"}},
      throwing : {{}, {"name"}},
      submit : {"selector", "generic", "none"} ]

\* No login page was opened.
NoLoginPage == [user |-> {}, pass |-> {}, throwing |-> {}, submit |-> "none"]

\* What the document shows once the submit has settled.
NoPage == [err |-> "none", phrase |-> FALSE, pwd |-> FALSE, authUrl |-> FALSE]

PostSubmit(err, phrase, pwd, authUrl) ==
    [err |-> err,           \* error-styled element with a failure keyword:
                            \* "none", "hidden" or "visible"
     phrase |-> phrase,     \* a visible plain element holds an error phrase
     pwd |-> pwd,           \* input[type="password"] is still present
     authUrl |-> authUrl]   \* the URL contains login, auth or signin

PostSubmitPages ==
    { PostSubmit("none", FALSE, FALSE, FALSE),     \* the application's landing page
      PostSubmit("none", FALSE, TRUE, TRUE),       \* still the login form at /login
      PostSubmit("none", FALSE, TRUE, FALSE),      \* a password field elsewhere
      PostSubmit("visible", FALSE, TRUE, TRUE),    \* login form with a shown error
      PostSubmit("hidden", FALSE, FALSE, FALSE),   \* a hidden error template
      PostSubmit("none", TRUE, FALSE, FALSE) }     \* an error phrase in plain text

\* The page.evaluate verification after the submit.
loginFailed(v, page) ==
    CASE v = "index" ->
            page.err # "none" \/ (page.pwd /\ page.authUrl)
      [] v = "part000" -> page.err = "visible" \/ page.phrase
      [] OTHER -> FALSE

-----------------------------------------------------------------------------
(* Results and responses *)

NoResult == [error |-> "", features |-> <<>>, loginSuccess |-> FALSE,
             pagesAnalyzed |-> -1]

ScriptResult(error, fs, ls, pagesAnalyzed) ==
    [error |-> error, features |-> fs, loginSuccess |-> ls,
     pagesAnalyzed |-> pagesAnalyzed]

\* message = "" and hasTests = FALSE stand for an absent key.
Response(status, success, message, hasTests, tests, ls, pagesAnalyzed) ==
    [status |-> status, success |-> success, message |-> message,
     hasTests |-> hasTests, tests |-> tests, loginSuccess |-> ls,
     pagesAnalyzed |-> pagesAnalyzed]

\* A faulty Failure, for comparison: the failure body is sent without its message.
FailureWithoutMessage(status, message) ==
    Response(status, FALSE, "", FALSE, <<>>, FALSE, -1)

\* res.status(status).json({ success: false, message })
Failure(status, message) == Response(status, FALSE, message, FALSE, <<>>, FALSE, -1)

urlsOf(b) == IF b.urls.def THEN b.urls.val ELSE <<>>

pagesOf(b) == IF b.pages.def THEN b.pages.val ELSE <<>>

\* if (!url && (!urls || urls.length === 0) [&& (!pages || pages.length === 0)])
NoUrlGiven(v, b) ==
    /\ Falsy(b.url)
    /\ Len(urlsOf(b)) = 0
    /\ (v = "part000" => Len(pagesOf(b)) = 0)

TargetUrls(v, b) ==
    CASE v = "part000" ->
            LET additionalUrls == IF Len(pagesOf(b)) > 0 THEN pagesOf(b) ELSE urlsOf(b)
                raw == IF Len(additionalUrls) > 0
                         THEN IF ~Falsy(b.url) THEN <<b.url>> \o additionalUrls
                              ELSE additionalUrls
                         ELSE IF ~Falsy(b.url) THEN <<b.url>> ELSE <<>>
            IN  SelectSeq(raw, LAMBDA u : ~Falsy(u))
      [] v = "simple" -> IF b.urls.def THEN b.urls.val ELSE <<b.url>>
      [] OTHER -> IF Len(urlsOf(b)) > 0 THEN urlsOf(b) ELSE <<b.url>>

Username(v, cfg) ==
    IF v = "part001" \/ ~Falsy(cfg.username) THEN cfg.username ELSE cfg.testUsername

Password(v, cfg) ==
    IF v = "part001" \/ ~Falsy(cfg.password) THEN cfg.password ELSE cfg.testPassword

\* A faulty condition, for comparison: the login block is never entered.
LoginRequestedNever(v, cfg) == FALSE

\* if (loginConfig && loginConfig.loginUrl && username && password)
LoginRequested(v, cfg) ==
    /\ cfg.present
    /\ ~Falsy(cfg.loginUrl)
    /\ ~Falsy(Username(v, cfg))
    /\ ~Falsy(Password(v, cfg))

-----------------------------------------------------------------------------
(* Initial state: a request arrives *)

\* The requests handled at the same time, by number.
Requests == {1, 2}

NoRequests == [r \in Requests |-> [pc |-> "none"]]

\* const allFeatures = [] ; const tests = [] ; const seen = new Set()
EmptyHeap == [c \in Requests |-> [allFeatures |-> <<>>, tests |-> <<>>, seen |-> {}]]

Init ==
    /\ requests = NoRequests
    /\ heap = EmptyHeap
    /\ variant \in Variants
    /\ token \in BOOLEAN
    /\ body \in Bodies(variant)
    /\ pc = "start"
    /\ spc = "idle"
    /\ targetUrls = <<>>
    /\ idx = 1
    /\ features = <<>>
    /\ uniqueFeatures = <<>>
    /\ loginSuccess = FALSE
    /\ lstate = "Idle"
    /\ usernameInput = 0
    /\ passwordInput = 0
    /\ typed = {}
    /\ submits = <<>>
    /\ postSubmit = NoPage
    /\ loginPage = NoLoginPage
    /\ attemptLog = <<>>
    /\ visited = <<>>
    /\ pageLog = <<>>
    /\ rendered = <<>>
    /\ result = NoResult
    /\ responses = <<>>
    /\ backendCalls = 0
    /\ timedOut = FALSE

scriptVars == <<spc, idx, features, loginSuccess, lstate, usernameInput,
                passwordInput, typed, submits, postSubmit, loginPage, visited, pageLog, attemptLog, rendered>>

requestVars == <<variant, token, body, requests, heap>>

Respond(r) ==
    /\ responses' = Append(responses, r)
    /\ pc' = "done"

-----------------------------------------------------------------------------
(* app.post('/analyze') of the Chromium API servers *)

\* A faulty TokenMissing, for comparison: the configuration check is left out.
TokenCheckSkipped == FALSE

\* if (!BROWSERLESS_TOKEN)
TokenMissing == ~token

\* Entry of the handler up to the fetch of the Browserless function API.
AnalyzeChromium ==
    /\ pc = "start"
    /\ variant \in Chromium
    /\ IF NoUrlGiven(variant, body)
         THEN /\ Respond(Failure(400, "URL or URLs array is required"))
              /\ UNCHANGED <<targetUrls, backendCalls, spc>>
         ELSE IF TokenMissing
           THEN /\ Respond(Failure(500, "BROWSERLESS_TOKEN not configured"))
                /\ UNCHANGED <<targetUrls, backendCalls, spc>>
           ELSE /\ targetUrls' = TargetUrls(variant, body)
                /\ backendCalls' = backendCalls + 1
                /\ pc' = "script"
                /\ spc' = "begin"
                /\ UNCHANGED responses
    /\ UNCHANGED <<requestVars, idx, features, uniqueFeatures, loginSuccess, lstate,
                   usernameInput, passwordInput, typed, submits, postSubmit, loginPage,
                   visited, pageLog, attemptLog, rendered, result, timedOut>>

\* A faulty return, for comparison: the value is noted and the script goes
\* on to the page loop.
FallThrough(r) ==
    /\ result' = r
    /\ pc' = "script"
    /\ spc' = "loop"

\* The script returns: the handler's fetch resolves with its value.
Return(r) ==
    /\ result' = r
    /\ pc' = "result"
    /\ spc' = "end"

\* A faulty catch, for comparison: the exception is swallowed and the script
\* goes on with the page loop.
ErrorSwallowed ==
    /\ result' = result
    /\ pc' = pc
    /\ spc' = "loop"

\* catch (error) of the script: { error, features: [], loginSuccess: false }
ScriptError == Return(ScriptResult("script error", <<>>, FALSE, -1))

\* No usable loginConfig: the login block is skipped.
SkipLogin ==
    /\ pc = "script" /\ spc = "begin"
    /\ ~LoginRequested(variant, body.loginConfig)
    /\ spc' = "loop"
    /\ UNCHANGED <<requestVars, pc, targetUrls, idx, features, uniqueFeatures,
                   loginSuccess, lstate, usernameInput, passwordInput, typed,
                   submits, postSubmit, loginPage, visited, pageLog, attemptLog, rendered, result, responses,
                   backendCalls, timedOut>>

\* page.goto(loginConfig.loginUrl)
LoginNavigate ==
    /\ pc = "script" /\ spc = "begin"
    /\ LoginRequested(variant, body.loginConfig)
    /\ \E loaded \in BOOLEAN :
         IF loaded
           THEN /\ lstate' = "NavigatedToLogin"
                /\ spc' = "probe"
                /\ UNCHANGED <<pc, result>>
           ELSE /\ ScriptError
                /\ UNCHANGED lstate
    /\ UNCHANGED <<requestVars, targetUrls, idx, features, uniqueFeatures,
                   loginSuccess, usernameInput, passwordInput, typed, submits,
                   postSubmit, loginPage, visited, pageLog, attemptLog, rendered, responses, backendCalls, timedOut>>

\* A faulty FieldsFound, for comparison: || written for &&.
FieldsFoundEither(u, p) == u # 0 \/ p # 0

\* if (usernameInput && passwordInput)
FieldsFound(u, p) == u # 0 /\ p # 0

\* The two probing loops and the test on their results.
ProbeFieldsOn(Pages) ==
    /\ pc = "script" /\ spc = "probe"
    /\ \E page \in Pages :
         LET u == Probe(usernameSelectors(variant), page.user, page.throwing)
             p == Probe(passwordSelectors(variant), page.pass, page.throwing)
         IN  /\ usernameInput' = u
             /\ passwordInput' = p
             /\ loginPage' = page
             /\ IF FieldsFound(u, p)
                  THEN /\ lstate' = "FieldsLocated"
                       /\ spc' = IF page.submit = "selector" THEN "fill-click"
                                 ELSE IF page.submit = "generic" THEN "fill-generic"
                                 ELSE "fill-enter"
                       /\ UNCHANGED <<pc, result>>
                  ELSE /\ lstate' = "VerifiedFailure"
                       /\ Return(ScriptResult("Login form not found on the page",
                                              <<>>, FALSE, -1))
    /\ UNCHANGED <<requestVars, targetUrls, idx, features, uniqueFeatures,
                   loginSuccess, typed, submits, postSubmit, visited, pageLog, attemptLog, rendered,
                   responses, backendCalls, timedOut>>

ProbeFields == ProbeFieldsOn(LoginPages)

\* The probes on login pages whose fields several selectors match.
ProbeManyFields == ProbeFieldsOn(ManyFieldPages)

\* A faulty submit, for comparison: Enter is pressed whatever was found.
SubmitByEnter(v, at) == "enter"

\* if (submitButton) click; else if (genericSubmit) click; else press Enter
\* (part_000 and part_001 have no generic search).
SubmitAction(v, at) ==
    IF at = "fill-click" THEN "click"
    ELSE IF at = "fill-generic" /\ v = "index" THEN "generic-click"
    ELSE "enter"

\* type(username), type(password), then the submit: click on the first
\* matching submit selector; otherwise (index.js) a click found by the
\* generic text search, or Enter in the password field.
FillAndSubmit ==
    /\ pc = "script" /\ spc \in {"fill-click", "fill-generic", "fill-enter"}
    /\ \E throws \in BOOLEAN :
         IF throws
           THEN /\ ScriptError
                /\ UNCHANGED <<typed, submits, lstate>>
           ELSE /\ typed' = {"username", "password"}
                /\ submits' = Append(submits, SubmitAction(variant, spc))
                /\ lstate' = "Submitted"
                /\ spc' = "verify"
                /\ UNCHANGED <<pc, result>>
    /\ UNCHANGED <<requestVars, targetUrls, idx, features, uniqueFeatures,
                   loginSuccess, usernameInput, passwordInput, postSubmit, loginPage, visited,
                   pageLog, attemptLog, rendered, responses, backendCalls, timedOut>>

\* After the settling delay: the verification (none in part_001), then
\* either the early return of the failure or loginSuccess = true.  A
\* page.evaluate that throws is caught by the script's outer catch.
VerifyLogin ==
    /\ pc = "script" /\ spc = "verify"
    /\ \/ /\ variant # "part001"
          /\ ScriptError
          /\ UNCHANGED <<postSubmit, lstate, loginSuccess>>
       \/ \E page \in PostSubmitPages :
            /\ postSubmit' = page
            /\ IF loginFailed(variant, page)
                 THEN /\ lstate' = "VerifiedFailure"
                      /\ Return(ScriptResult("Login failed", <<>>, FALSE, 0))
                      /\ UNCHANGED loginSuccess
                 ELSE /\ lstate' = "VerifiedSuccess"
                      /\ loginSuccess' = TRUE
                      /\ spc' = "loop"
                      /\ UNCHANGED <<pc, result>>
    /\ UNCHANGED <<requestVars, targetUrls, idx, features, uniqueFeatures, typed,
                   submits, usernameInput, passwordInput, loginPage, visited, pageLog, attemptLog,
                   rendered,
                   responses, backendCalls, timedOut>>

-----------------------------------------------------------------------------
(* Step 2 of the script: the page loop *)

maxAttempts == 3

\* A faulty retry, for comparison: no second attempt is ever made.
AttemptsOnce(v) == 1

Attempts(v) == IF v = "part000" THEN maxAttempts ELSE 1

\* What the extractor made of one page.
Rendered(url, doc, fs) == [url |-> url, doc |-> doc, features |-> fs]

\* A forEach callback of the extractor has no try/catch of its own: an
\* element whose reading throws makes page.evaluate reject as a whole.
ElementThrows(doc) == \E i \in 1..Len(doc) : doc[i].itype = "throws"

\* The extraction of one page: part_000 evaluates again (up to maxAttempts
\* times) while no feature was found; docs[k] is the document at attempt k
\* and throwAt the attempt whose page.evaluate throws (0: none does).
\* attempts counts the page.evaluate calls, waits the wait(2000) calls.
RECURSIVE Extraction(_, _, _, _, _)
Extraction(v, docs, throwAt, pageUrl, attempt) ==
    IF throwAt = attempt
      THEN [threw |-> TRUE, features |-> <<>>, doc |-> DocEmpty,
            attempts |-> attempt, waits |-> 0]
    ELSE IF ElementThrows(docs[attempt])
      THEN [threw |-> TRUE, features |-> <<>>, doc |-> docs[attempt],
            attempts |-> attempt, waits |-> 0]
    ELSE LET found == pageFeatures(v, docs[attempt], pageUrl)
         IN  IF attempt < Attempts(v) /\ Len(found) = 0
               THEN [Extraction(v, docs, throwAt, pageUrl, attempt + 1)
                        EXCEPT !.waits = @ + 1]
               ELSE [threw |-> FALSE, features |-> found, doc |-> docs[attempt],
                     attempts |-> attempt, waits |-> 0]

\* What a traced run notes about one iteration of the page loop.
Attempted(loaded, docs, throwAt, got) ==
    [loaded |-> loaded, docs |-> docs, throwAt |-> throwAt,
     attempts |-> got.attempts, waits |-> got.waits, features |-> got.features]

NotAttempted == [attempts |-> 0, waits |-> 0, features |-> <<>>]

\* A faulty LoopDone, for comparison: the loop is left after its first iteration.
LoopDoneAfterFirst(i, urls) == i > Min(1, Len(urls))

\* The exit test of for (let i = 0; i < urls.length; i++), i counted from 1.
LoopDone(i, urls) == i > Len(urls)

\* One iteration of the loop with its try/catch; Renderings holds, per
\* choice, the document each extraction attempt sees.
VisitPageOn(Renderings, traced) ==
    /\ pc = "script" /\ spc = "loop"
    /\ ~LoopDone(idx, targetUrls)
    /\ visited' = Append(visited, targetUrls[idx])
    /\ idx' = idx + 1
    /\ \E navigated \in (IF Falsy(targetUrls[idx]) THEN {FALSE} ELSE BOOLEAN) :
         IF ~navigated
           THEN /\ pageLog' = Append(pageLog, "failed")
                /\ attemptLog' =
                        IF traced
                          THEN Append(attemptLog, Attempted(FALSE, <<>>, 0, NotAttempted))
                          ELSE attemptLog
                /\ UNCHANGED <<features, rendered>>
           ELSE \E docs \in Renderings, throwAt \in 0..Attempts(variant) :
                  LET got == Extraction(variant, docs, throwAt, targetUrls[idx], 1)
                  IN  /\ attemptLog' =
                            IF traced
                              THEN Append(attemptLog, Attempted(TRUE, docs, throwAt, got))
                              ELSE attemptLog
                      /\ IF got.threw
                           THEN /\ pageLog' = Append(pageLog, "failed")
                                /\ UNCHANGED features
                                /\ rendered' =
                                       IF ElementThrows(got.doc)
                                         THEN Append(rendered,
                                                 Rendered(targetUrls[idx], got.doc, <<>>))
                                         ELSE rendered
                           ELSE /\ pageLog' = Append(pageLog, "ok")
                                /\ features' = features \o got.features
                                /\ rendered' = Append(rendered,
                                       Rendered(targetUrls[idx], got.doc, got.features))
    /\ UNCHANGED <<requestVars, pc, spc, targetUrls, uniqueFeatures, loginSuccess,
                   lstate, usernameInput, passwordInput, typed, submits, postSubmit, loginPage,
                   result, responses, backendCalls, timedOut>>

\* The page loop over pages that may change between two attempts.
VisitPage == VisitPageOn([1..Attempts(variant) -> Docs], FALSE)

\* The documents of a page that fills in while the script waits.
SlowDocs == {DocEmpty, DocNav, DocInert}

\* The page loop with its extraction attempts traced.
VisitTracedPage == VisitPageOn([1..Attempts(variant) -> SlowDocs], TRUE)

\* The page loop over the large documents, the same at every attempt.
VisitLargePage ==
    VisitPageOn({[k \in 1..Attempts(variant) |-> d] : d \in LargeDocs(variant)},
                FALSE)

\* return { features, loginSuccess, pagesAnalyzed: urls.length }
ScriptReturn ==
    /\ pc = "script" /\ spc = "loop"
    /\ LoopDone(idx, targetUrls)
    /\ Return(ScriptResult("", features, loginSuccess, Len(targetUrls)))
    /\ UNCHANGED <<requestVars, targetUrls, idx, features, uniqueFeatures,
                   loginSuccess, lstate, usernameInput, passwordInput, typed,
                   submits, postSubmit, loginPage, visited, pageLog, attemptLog, rendered, responses, backendCalls,
                   timedOut>>

-----------------------------------------------------------------------------
(* The handler after the fetch *)

\* if (!response.ok): the backend answered with an error status.
BackendNotOk ==
    /\ pc = "script"
    /\ Respond(Failure(500, "Failed to execute script"))
    /\ UNCHANGED <<requestVars, scriptVars, targetUrls, uniqueFeatures, result,
                   backendCalls, timedOut>>

\* The fetch (or reading its body) rejects: AbortSignal.timeout(90000) fired
\* or the connection failed; catch (error) answers 500.
FetchRejects ==
    /\ pc = "script"
    /\ \E aborted \in BOOLEAN :
         /\ timedOut' = aborted
         /\ Respond(Failure(500, IF aborted THEN "The operation was aborted due to timeout"
                                            ELSE "fetch failed"))
    /\ UNCHANGED <<requestVars, scriptVars, targetUrls, uniqueFeatures, result,
                   backendCalls>>

\* result.error, then the empty-features answer, then the synthesis.
HandleResult ==
    /\ pc = "result"
    /\ IF result.error # ""
         THEN Respond(Failure(500, result.error))
         ELSE IF Len(result.features) = 0
           THEN Respond(Failure(200,
                    "No functional elements detected after JavaScript execution."))
           ELSE Respond(Response(200, TRUE, "", TRUE,
                                 generateTestCasesFromFeatures(result.features),
                                 result.loginSuccess, result.pagesAnalyzed))
    /\ UNCHANGED <<requestVars, scriptVars, targetUrls, uniqueFeatures, result,
                   backendCalls, timedOut>>

-----------------------------------------------------------------------------
(* app.post('/analyze') of the simplified server *)

AnalyzeSimple ==
    /\ pc = "start"
    /\ variant = "simple"
    /\ targetUrls' = TargetUrls(variant, body)
    /\ IF TokenMissing
         THEN Respond(Failure(500, "BROWSERLESS_TOKEN not configured"))
         ELSE /\ pc' = "loop"
              /\ UNCHANGED responses
    /\ UNCHANGED <<requestVars, scriptVars, uniqueFeatures, result, backendCalls,
                   timedOut>>

\* One iteration of the fetch loop: a rejected fetch leaves the loop through
\* the handler's catch, a non-OK answer continues with the next URL.
FetchPageOn(D) ==
    /\ pc = "loop"
    /\ ~LoopDone(idx, targetUrls)
    /\ backendCalls' = backendCalls + 1
    /\ visited' = Append(visited, targetUrls[idx])
    /\ \E outcome \in {"throws", "not-ok", "ok"} :
         CASE outcome = "throws" ->
                /\ Respond(Failure(500, "fetch failed"))
                /\ pageLog' = Append(pageLog, "failed")
                /\ UNCHANGED <<idx, features, rendered>>
           [] outcome = "not-ok" ->
                /\ idx' = idx + 1
                /\ pageLog' = Append(pageLog, "failed")
                /\ UNCHANGED <<pc, responses, features, rendered>>
           [] OTHER ->
                /\ ~Falsy(targetUrls[idx])
                /\ \E doc \in D :
                     LET found == extractFeaturesFromHTML(doc, targetUrls[idx])
                     IN  /\ features' = features \o found
                         /\ rendered' = Append(rendered,
                                Rendered(targetUrls[idx], doc, found))
                /\ idx' = idx + 1
                /\ pageLog' = Append(pageLog, "ok")
                /\ UNCHANGED <<pc, responses>>
    /\ UNCHANGED <<requestVars, spc, targetUrls, uniqueFeatures, loginSuccess, lstate,
                   usernameInput, passwordInput, typed, submits, postSubmit, loginPage, result,
                   attemptLog, timedOut>>

FetchPage == FetchPageOn(Docs)

FetchLargePage == FetchPageOn(LargeDocs(variant))

\* After the loop: deduplicateFeatures, generateTestCases, res.json.
FinishSimple ==
    /\ pc = "loop"
    /\ LoopDone(idx, targetUrls)
    /\ uniqueFeatures' = deduplicateFeatures(features)
    /\ Respond(Response(200, TRUE, "", TRUE,
                        generateTestCases(deduplicateFeatures(features)),
                        FALSE, Len(targetUrls)))
    /\ UNCHANGED <<requestVars, scriptVars, targetUrls, result, backendCalls, timedOut>>

-----------------------------------------------------------------------------

Next ==
    \/ AnalyzeChromium
    \/ SkipLogin
    \/ LoginNavigate
    \/ ProbeFields
    \/ FillAndSubmit
    \/ VerifyLogin
    \/ VisitPage
    \/ ScriptReturn
    \/ BackendNotOk
    \/ FetchRejects
    \/ HandleResult
    \/ AnalyzeSimple
    \/ FetchPage
    \/ FinishSimple

Spec == Init /\ [][Next]_vars

-----------------------------------------------------------------------------
(* The pipeline on its own: extraction, reconciliation and synthesis of a   *)
(* run whose backend call succeeds, started when the page loop begins on a  *)
(* large document or when the script has returned a long feature list.      *)

\* The pages a feature list was collected on, in the order of the loop.
PagesOf(fs) ==
    AtPositions([i \in 1..Len(fs) |-> fs[i].url],
                {i \in 1..Len(fs) : \A j \in 1..(i - 1) : fs[j].url # fs[i].url})

PipelineInit ==
    /\ requests = NoRequests
    /\ heap = EmptyHeap
    /\ variant \in Variants
    /\ token = TRUE
    /\ uniqueFeatures = <<>>
    /\ loginSuccess = FALSE
    /\ lstate = "Idle"
    /\ usernameInput = 0
    /\ passwordInput = 0
    /\ typed = {}
    /\ submits = <<>>
    /\ postSubmit = NoPage
    /\ loginPage = NoLoginPage
    /\ attemptLog = <<>>
    /\ rendered = <<>>
    /\ responses = <<>>
    /\ timedOut = FALSE
    /\ \/ /\ pc = IF variant \in Chromium THEN "script" ELSE "loop"
          /\ spc = IF variant \in Chromium THEN "loop" ELSE "idle"
          /\ backendCalls = IF variant \in Chromium THEN 1 ELSE 0
          /\ body = Body("p1", NoArray, NoArray, NoLogin)
          /\ targetUrls = <<"p1">>
          /\ idx = 1
          /\ features = <<>>
          /\ visited = <<>>
          /\ pageLog = <<>>
          /\ result = NoResult
       \/ /\ variant \in Chromium
          /\ pc = "result"
          /\ spc = "end"
          /\ backendCalls = 1
          /\ features \in FeatureLists
          /\ targetUrls = PagesOf(features)
          /\ body = Body(Undef, SomeArray(targetUrls), NoArray, NoLogin)
          /\ idx = Len(targetUrls) + 1
          /\ visited = targetUrls
          /\ pageLog = [i \in 1..Len(targetUrls) |-> "ok"]
          /\ result = ScriptResult("", features, FALSE, Len(targetUrls))

PipelineNext ==
    \/ VisitLargePage
    \/ ScriptReturn
    \/ HandleResult
    \/ FetchLargePage
    \/ FinishSimple

Pipeline == PipelineInit /\ [][PipelineNext]_vars

-----------------------------------------------------------------------------
(* The login on its own: the script stands on the login page, about to      *)
(* probe the selector lists                                                 *)

LoginInit ==
    /\ requests = NoRequests
    /\ heap = EmptyHeap
    /\ variant \in Chromium
    /\ token = TRUE
    /\ body = Body("p1", NoArray, NoArray,
                   LoginCfg("login", "alice", "secret", Undef, Undef))
    /\ pc = "script"
    /\ spc = "probe"
    /\ targetUrls = TargetUrls(variant, body)
    /\ idx = 1
    /\ features = <<>>
    /\ uniqueFeatures = <<>>
    /\ loginSuccess = FALSE
    /\ lstate = "NavigatedToLogin"
    /\ usernameInput = 0
    /\ passwordInput = 0
    /\ typed = {}
    /\ submits = <<>>
    /\ postSubmit = NoPage
    /\ loginPage = NoLoginPage
    /\ attemptLog = <<>>
    /\ visited = <<>>
    /\ pageLog = <<>>
    /\ rendered = <<>>
    /\ result = NoResult
    /\ responses = <<>>
    /\ backendCalls = 1
    /\ timedOut = FALSE

LoginNext ==
    \/ ProbeManyFields
    \/ FillAndSubmit
    \/ VerifyLogin
    \/ VisitPage
    \/ ScriptReturn
    \/ HandleResult

Login == LoginInit /\ [][LoginNext]_vars

-----------------------------------------------------------------------------
(* The page loop of part_000 on its own, its extraction attempts traced *)

RetryInit ==
    /\ requests = NoRequests
    /\ heap = EmptyHeap
    /\ variant = "part000"
    /\ token = TRUE
    /\ body = Body(Undef, SomeArray(<<"p1", "p2">>), NoArray, NoLogin)
    /\ pc = "script"
    /\ spc = "loop"
    /\ targetUrls = TargetUrls(variant, body)
    /\ idx = 1
    /\ features = <<>>
    /\ uniqueFeatures = <<>>
    /\ loginSuccess = FALSE
    /\ lstate = "Idle"
    /\ usernameInput = 0
    /\ passwordInput = 0
    /\ typed = {}
    /\ submits = <<>>
    /\ postSubmit = NoPage
    /\ loginPage = NoLoginPage
    /\ attemptLog = <<>>
    /\ visited = <<>>
    /\ pageLog = <<>>
    /\ rendered = <<>>
    /\ result = NoResult
    /\ responses = <<>>
    /\ backendCalls = 1
    /\ timedOut = FALSE

RetryNext ==
    \/ VisitTracedPage
    \/ ScriptReturn
    \/ HandleResult

Retry == RetryInit /\ [][RetryNext]_vars

-----------------------------------------------------------------------------
(* Two requests at once: the handlers interleave at their awaits *)

\* Everything of the single request; untouched while two requests run.
handlerVars == <<variant, token, body, pc, spc, targetUrls, idx, features,
                 uniqueFeatures, loginSuccess, lstate, usernameInput, passwordInput,
                 typed, submits, postSubmit, loginPage, visited, pageLog, attemptLog, rendered, result,
                 responses, backendCalls, timedOut>>

\* A faulty scope, for comparison: the arrays are declared once per module.
ModuleScope(r) == 1

\* allFeatures, tests and seen are declared with const inside the handler and
\* inside generateTestCasesFromFeatures: every call has arrays of its own.
CallScope(r) == r

Arrived(v, urls) ==
    [pc |-> IF v = "simple" THEN "loop" ELSE "await", variant |-> v, urls |-> urls,
     idx |-> 1, got |-> <<>>, tests |-> <<>>]

ConcurrentInit ==
    /\ requests = NoRequests
    /\ heap = EmptyHeap
    /\ variant = "simple"
    /\ token = TRUE
    /\ body = Body("p1", NoArray, NoArray, NoLogin)
    /\ pc = "start"
    /\ spc = "idle"
    /\ targetUrls = <<>>
    /\ idx = 1
    /\ features = <<>>
    /\ uniqueFeatures = <<>>
    /\ loginSuccess = FALSE
    /\ lstate = "Idle"
    /\ usernameInput = 0
    /\ passwordInput = 0
    /\ typed = {}
    /\ submits = <<>>
    /\ postSubmit = NoPage
    /\ loginPage = NoLoginPage
    /\ attemptLog = <<>>
    /\ visited = <<>>
    /\ pageLog = <<>>
    /\ rendered = <<>>
    /\ result = NoResult
    /\ responses = <<>>
    /\ backendCalls = 0
    /\ timedOut = FALSE

\* app.post('/analyze') is entered for request r, up to its first await.
Arrive(r) ==
    /\ requests[r].pc = "none"
    /\ \E v \in {"simple", "index"}, urls \in {<<"p1">>, <<"p1", "p2">>, <<"p2">>} :
         requests' = [requests EXCEPT ![r] = Arrived(v, urls)]
    /\ UNCHANGED <<handlerVars, heap>>

\* One iteration of the fetch loop of request r, from await to await.
FetchOf(r) ==
    /\ requests[r].pc = "loop"
    /\ requests[r].idx <= Len(requests[r].urls)
    /\ \E ok \in BOOLEAN, doc \in Docs :
         LET found == IF ok
                        THEN extractFeaturesFromHTML(doc, requests[r].urls[requests[r].idx])
                        ELSE <<>>
         IN  /\ heap' = [heap EXCEPT ![CallScope(r)].allFeatures = @ \o found]
             /\ requests' = [requests EXCEPT ![r].idx = @ + 1,
                                             ![r].got = @ \o found]
    /\ UNCHANGED handlerVars

\* After the loop of request r: deduplicateFeatures, generateTestCases, res.json.
FinishOf(r) ==
    /\ requests[r].pc = "loop"
    /\ requests[r].idx > Len(requests[r].urls)
    /\ requests' = [requests EXCEPT
            ![r].pc = "done",
            ![r].tests = generateTestCases(
                            deduplicateFeatures(heap[CallScope(r)].allFeatures))]
    /\ UNCHANGED <<handlerVars, heap>>

\* The backend answers request r of src/index.js with the script's features:
\* generateTestCasesFromFeatures runs over them and the answer is sent.
HandleResultOf(r) ==
    /\ requests[r].pc = "await"
    /\ \E docs \in [1..Len(requests[r].urls) -> Docs] :
         LET fs == IF Len(docs) = 1
                     THEN pageFeatures("index", docs[1], requests[r].urls[1])
                     ELSE pageFeatures("index", docs[1], requests[r].urls[1])
                          \o pageFeatures("index", docs[2], requests[r].urls[2])
             out == SynthFrom(fs, [tests |-> heap[CallScope(r)].tests,
                                   seen |-> heap[CallScope(r)].seen])
         IN  /\ heap' = [heap EXCEPT ![CallScope(r)].tests = out.tests,
                                     ![CallScope(r)].seen = out.seen]
             /\ requests' = [requests EXCEPT
                     ![r].pc = "done",
                     ![r].got = fs,
                     ![r].tests = FirstN(out.tests, TotalTestLimit)]
    /\ UNCHANGED handlerVars

ConcurrentNext ==
    \E r \in Requests :
        \/ Arrive(r)
        \/ FetchOf(r)
        \/ FinishOf(r)
        \/ HandleResultOf(r)

Concurrent == ConcurrentInit /\ [][ConcurrentNext]_vars

-----------------------------------------------------------------------------
(* Properties *)

Range(s) == {s[i] : i \in 1..Len(s)}

\* The request has been answered with a failure that carries no test case.
AnsweredFailure ==
    /\ pc = "done"
    /\ Len(responses) = 1
    /\ ~responses[1].success
    /\ responses[1].message # ""
    /\ responses[1].tests = <<>>

\* The script ran to its return statement (the backend call neither failed
\* nor timed out) or, in the simplified server, the handler answered.
RunCompleted ==
    /\ pc = "done"
    /\ variant \in Chromium => spc = "end"

\* The login attempt got past the probing of the two selector lists.
Probed == lstate \notin {"Idle", "NavigatedToLogin"}

\* C1: whenever the submit of a login leads to a page that still holds a
\* password field at a URL containing "login", the orchestrator is in
\* Verified(failure), no target URL has been visited, and the answer, once
\* sent, has success:false and no test case.
C1_LoginFailureShortCircuit ==
    (Probed /\ spc # "verify" /\ submits # <<>> /\ postSubmit.pwd /\ postSubmit.authUrl)
        => /\ lstate = "VerifiedFailure"
           /\ visited = <<>>
           /\ \A i \in 1..Len(responses) :
                ~responses[i].success /\ responses[i].tests = <<>>

\* C2: when the username list or the password list is exhausted without a
\* match, the run is in Verified(failure) with "Login form not found", nothing
\* was typed or submitted, no target URL was visited, features is empty and
\* loginSuccess is false, in the script's result and in the answer.
C2_FormNotFound ==
    (Probed /\ (usernameInput = 0 \/ passwordInput = 0))
        => /\ lstate = "VerifiedFailure"
           /\ typed = {}
           /\ submits = <<>>
           /\ visited = <<>>
           /\ features = <<>>
           /\ ~loginSuccess
           /\ result = ScriptResult("Login form not found on the page", <<>>, FALSE, -1)
           /\ \A i \in 1..Len(responses) :
                ~responses[i].success /\ responses[i].tests = <<>>

\* C2 witness: the password list was exhausted although the username field
\* was found, and the request has been answered.
C2_Witness ==
    /\ Probed
    /\ usernameInput # 0
    /\ passwordInput = 0
    /\ pc = "done"
    /\ result.error = "Login form not found on the page"

\* C3: a failed page never aborts the batch: in every completed run in which
\* a page failed, every URL of the target list was visited, and when a page
\* yielded features the answer is a success carrying test cases.
C3_PageFailureNeverAborts ==
    (RunCompleted /\ "failed" \in Range(pageLog))
        => /\ visited = targetUrls
           /\ features # <<>> =>
                /\ Len(responses) = 1
                /\ responses[1].success
                /\ responses[1].tests # <<>>

\* The page loop ran over the whole target list, at least one page was
\* analyzed, and no feature was found.
NothingFound ==
    /\ RunCompleted
    /\ "ok" \in Range(pageLog)
    /\ IF variant \in Chromium
         THEN result.error = "" /\ result.features = <<>>
         ELSE LoopDone(idx, targetUrls) /\ features = <<>> /\ ~TokenMissing

\* C4: when no feature was detected on any analyzed page, the answer has
\* status 200, success:false, a message and no test case.
C4_NothingFoundIsNotACrash ==
    NothingFound
        => /\ Len(responses) = 1
           /\ responses[1].status = 200
           /\ ~responses[1].success
           /\ responses[1].message # ""
           /\ ~responses[1].hasTests

\* The body supplies no URL: no url and no non-empty urls or pages list.
NoUrlSupplied ==
    /\ Falsy(body.url)
    /\ Len(urlsOf(body)) = 0
    /\ Len(pagesOf(body)) = 0

\* C5: a request without any URL is rejected at once: as soon as the handler
\* has run it has answered success:false with a message, and no call to the
\* backend was made and no page was loaded.
C5_NoUrlRejected ==
    (NoUrlSupplied /\ pc # "start")
        => /\ AnsweredFailure
           /\ backendCalls = 0
           /\ visited = <<>>

\* C6: without BROWSERLESS_TOKEN no request reaches the backend and no page
\* is loaded, and once the handler has run the request is answered with
\* success:false and a message.
C6_MissingTokenRejected ==
    ~token
        => /\ backendCalls = 0
           /\ visited = <<>>
           /\ pc \in {"start", "done"}
           /\ pc = "done" => AnsweredFailure

\* C6 witness: a well-formed request (with a URL) was rejected for the
\* missing token.
C6_Witness ==
    /\ ~token
    /\ ~NoUrlSupplied
    /\ pc = "done"
    /\ responses[1].message = "BROWSERLESS_TOKEN not configured"

\* C7: at most one response is sent, exactly one once the handler is done;
\* a success:false response carries a message and no test case, a
\* success:true response carries a tests array.
C7_ResponseShape ==
    /\ Len(responses) <= 1
    /\ pc = "done" <=> Len(responses) = 1
    /\ \A i \in 1..Len(responses) :
         IF responses[i].success
           THEN responses[i].hasTests
           ELSE /\ responses[i].message # ""
                /\ ~responses[i].hasTests \/ responses[i].tests = <<>>

\* C7 witness: the script reported an error after a login attempt and the
\* handler answered it.
C7_Witness ==
    /\ pc = "done"
    /\ spc = "end"
    /\ result.error # ""
    /\ Len(responses) = 1
    /\ ~responses[1].success

\* C8: when the timeout of the backend call has fired, the request is
\* answered with a failure carrying no test case; and a response carries
\* test cases only when the page loop went over the whole target list.
C8_TimeoutIsFailure ==
    /\ timedOut => AnsweredFailure
    /\ \A i \in 1..Len(responses) :
         responses[i].hasTests
            => /\ ~timedOut
               /\ idx = Len(targetUrls) + 1
               /\ Len(visited) = Len(targetUrls)

\* C8 witness: the timeout fired in the middle of the page loop, after
\* features had been collected and before the last page.
C8_Witness ==
    /\ timedOut
    /\ pc = "done"
    /\ features # <<>>
    /\ visited # <<>>
    /\ idx <= Len(targetUrls)

\* The positions of the first occurrence of each fingerprint in fs.
FirstOccurrences(fs) ==
    {i \in 1..Len(fs) : \A j \in 1..(i - 1) : fs[j].fingerprint # fs[i].fingerprint}

\* The simplified server has reconciled allFeatures and answered.
Reconciled == variant = "simple" /\ pc = "done" /\ responses[1].success

\* C9: the reconciled list holds exactly one feature per fingerprint of the
\* input: no two of its features share a fingerprint, every fingerprint of
\* the input occurs in it, and each is the first occurrence, in input order.
C9_OnePerFingerprint ==
    Reconciled
        => /\ \A i, j \in 1..Len(uniqueFeatures) :
                uniqueFeatures[i].fingerprint = uniqueFeatures[j].fingerprint => i = j
           /\ {f.fingerprint : f \in Range(uniqueFeatures)}
                = {f.fingerprint : f \in Range(features)}
           /\ uniqueFeatures = AtPositions(features, FirstOccurrences(features))

\* C9 witness: duplicates were dropped, within a page and across two pages,
\* and several features remain.
C9_Witness ==
    /\ Reconciled
    /\ Len(uniqueFeatures) >= 2
    /\ Len(features) >= Len(uniqueFeatures) + 2
    /\ \E i, j \in 1..Len(features) :
         /\ features[i].fingerprint = features[j].fingerprint
         /\ features[i].url # features[j].url

\* The distinct page URLs on which fingerprint fp was observed, in the order
\* of their first observation.
ObservedOn(fp, fs) ==
    LET obs == SelectSeq(fs, LAMBDA f : f.fingerprint = fp)
    IN  AtPositions([i \in 1..Len(obs) |-> obs[i].url],
                    {i \in 1..Len(obs) : \A j \in 1..(i - 1) : obs[j].url # obs[i].url})

\* C10: the affectedPages of the test case built from a reconciled feature
\* list every distinct page on which the feature's fingerprint was observed,
\* in first-observation order, without duplicates, and is never empty.
C10_AffectedPagesComplete ==
    Reconciled
        => \A k \in 1..Len(uniqueFeatures) :
             /\ responses[1].tests[k].affectedPages
                  = ObservedOn(uniqueFeatures[k].fingerprint, features)
             /\ responses[1].tests[k].affectedPages # <<>>

\* C11: a feature whose fingerprint was observed on more than one page is
\* global once all pages are processed, and the test case built from it has
\* scope Global rather than Page-specific (a feature observed on one page
\* only, outside any page-chrome region, has scope Page-specific).
C11_GlobalScope ==
    Reconciled
        => \A k \in 1..Len(uniqueFeatures) :
             LET pages == ObservedOn(uniqueFeatures[k].fingerprint, features)
             IN  responses[1].tests[k].scope
                    = IF Len(pages) > 1 THEN "Global" ELSE "Page-specific"

\* The request was answered with a list of test cases.
AnsweredTests == pc = "done" /\ Len(responses) = 1 /\ responses[1].hasTests

\* The elements of every document the extractor ran on.
RenderedElems == UNION {Range(rendered[i].doc) : i \in 1..Len(rendered)}

CrudKeywords == {"add", "create", "new", "edit", "update", "modify", "delete", "remove"}

\* The analysed pages hold a data-entry form (fields without any of the
\* classification keywords), a table and a create, update or delete button.
CrudTrigger ==
    /\ \E e \in RenderedElems : e.tag = "form" /\ e.nInputs > 0 /\ e.signals = {}
    /\ \E e \in RenderedElems : e.tag = "table"
    /\ \E e \in RenderedElems : e.tag = "button" /\ e.signals \cap CrudKeywords # {}

\* C12: the answer holds exactly one Critical-priority composite workflow
\* test when the analysed pages hold a data-entry form, a table and a create,
\* update or delete button, and none otherwise.
C12_CrudComposite ==
    AnsweredTests
        => LET composite == SelectSeq(responses[1].tests,
                                      LAMBDA t : t.priority = "Critical")
           IN  Len(composite) = IF CrudTrigger THEN 1 ELSE 0

\* The test cases of the answer that were built from features of one kind.
TestsOfKind(kind) == SelectSeq(responses[1].tests, LAMBDA t : t.kind = kind)

\* The features of one kind the script returned.
FeaturesOfKind(kind) == SelectSeq(result.features, LAMBDA f : f.type = kind)

\* C13: whatever feature list the script returned, the list synthesized by
\* generateTestCasesFromFeatures holds at most 30 test cases built from
\* buttons and at most 40 built from links.
C13_PerKindCaps ==
    (variant \in Chromium /\ AnsweredTests)
        => /\ Len(TestsOfKind("button")) <= 30
           /\ Len(TestsOfKind("link")) <= 40

\* C13 witness: the script returned more than 30 buttons and exactly 30 of
\* them became test cases.
C13_Witness ==
    /\ variant \in Chromium
    /\ AnsweredTests
    /\ Len(FeaturesOfKind("button")) > 30
    /\ Len(TestsOfKind("button")) = 30

\* What a feature shows of itself: the purpose of a form, the text of a
\* button or link.
DisplayIdentity(f) == IF f.type = "form" THEN f.purpose ELSE f.text

\* Features i and j of the returned list agree on kind, display identity and page.
SameTriple(i, j) ==
    /\ result.features[i].type = result.features[j].type
    /\ DisplayIdentity(result.features[i]) = DisplayIdentity(result.features[j])
    /\ result.features[i].url = result.features[j].url

\* Feature i is the first of its (kind, display identity, page) triple.
FirstOfTriple(i) == \A h \in 1..(i - 1) : ~SameTriple(h, i)

\* The answer holds the test case built from feature f.
Emitted(f) ==
    \E t \in Range(responses[1].tests) :
        /\ t.kind = f.type
        /\ t.pageUrl = f.url
        /\ t.title = CASE f.type = "form" -> <<"Test", f.purpose>>
                       [] f.type = "button" -> <<"Test", f.text, "button functionality">>
                       [] OTHER -> <<"Test", f.text, "navigation">>

\* Feature i was left out although no earlier feature stood for it, and the
\* answer is as long as the cap of its kind (or the overall cap) allows.
DroppedByCap(i) ==
    LET f == result.features[i]
    IN  /\ f.type \in {"form", "button", "link"}
        /\ FirstOfTriple(i)
        /\ ~Emitted(f)
        /\ Len(responses[1].tests)
              >= (CASE f.type = "button" -> 30 [] f.type = "link" -> 40 [] OTHER -> 50)

\* C14 as stated: whenever a feature is dropped by a cap, no feature that
\* comes later in processing order is emitted as a test case.
C14_NothingAfterADrop ==
    (variant \in Chromium /\ AnsweredTests)
        => \A i, j \in 1..Len(result.features) :
             (i < j /\ DroppedByCap(i)) => ~Emitted(result.features[j])

\* C14 as amended: whenever a feature is dropped by a cap, no later feature
\* of the same kind is emitted as a test case.
C14_NothingOfTheKindAfterADrop ==
    (variant \in Chromium /\ AnsweredTests)
        => \A i, j \in 1..Len(result.features) :
             (i < j /\ DroppedByCap(i) /\ FirstOfTriple(j)
                  /\ result.features[j].type = result.features[i].type)
                => ~Emitted(result.features[j])

\* C14 witness: a link was dropped by its cap, a form after it was emitted
\* and a link after both was left out.
C14_Witness ==
    /\ variant \in Chromium
    /\ AnsweredTests
    /\ \E i, k, j \in 1..Len(result.features) :
         /\ i < k /\ k < j
         /\ result.features[i].type = "link" /\ DroppedByCap(i)
         /\ result.features[k].type = "form" /\ Emitted(result.features[k])
         /\ result.features[j].type = "link" /\ FirstOfTriple(j)
         /\ ~Emitted(result.features[j])

\* C15: the tests array returned by /analyze never has more than 50 entries
\* (the first half of the claim; the list is cut to its first 50 entries).
C15_OverallCap ==
    AnsweredTests => Len(responses[1].tests) <= 50

\* C16: no two test cases of one answer come from the same (kind, display
\* identity, page) triple, and a feature that differs from every earlier one
\* in kind, display identity or page gets its own test case as long as no
\* cap is at work (fewer than 30 test cases in all).
C16_SynthesisDedup ==
    (variant \in Chromium /\ AnsweredTests)
        => /\ \A a, b \in 1..Len(responses[1].tests) :
                (/\ responses[1].tests[a].kind = responses[1].tests[b].kind
                 /\ responses[1].tests[a].title = responses[1].tests[b].title
                 /\ responses[1].tests[a].pageUrl = responses[1].tests[b].pageUrl)
                    => a = b
           /\ Len(responses[1].tests) < 30
                => \A i \in 1..Len(result.features) :
                     (result.features[i].type \in {"form", "button", "link"}
                          /\ FirstOfTriple(i))
                        => Emitted(result.features[i])

\* The subtype the stated rule order assigns to field names holding the
\* keywords S: the first rule whose condition holds.
StatedFormType(S) ==
    IF "email" \in S /\ "password" \in S /\ "confirm" \notin S THEN "login"
    ELSE IF S \cap {"search", "query"} # {} THEN "search"
    ELSE IF S \cap {"card", "payment", "cvv"} # {} THEN "payment"
    ELSE IF S \cap {"register", "signup"} # {} \/ ("email" \in S /\ "confirm" \in S)
      THEN "registration"
    ELSE IF S \cap {"comment", "message", "feedback"} # {} THEN "feedback"
    ELSE "data-entry"

\* The forms of a document and the form features extracted from it pair up
\* in document order when every form has a field.
FormsOf(doc) == SelectSeq(doc, LAMBDA e : e.tag = "form")

FormFeaturesOf(fs) == SelectSeq(fs, LAMBDA f : f.type = "form")

\* C17: for every combination of keyword signals in the field names of a
\* form, the subtype the extractor assigns is the one of the first rule, in
\* the order login, search, payment, registration, feedback, data-entry,
\* whose condition holds.
C17_FormRuleOrder ==
    \A i \in 1..Len(rendered) :
        LET forms == FormsOf(rendered[i].doc)
            found == FormFeaturesOf(rendered[i].features)
        IN  (variant \in Chromium /\ Len(forms) > 0
                /\ \A k \in 1..Len(forms) : forms[k].nInputs > 0)
              => /\ Len(found) = Min(Len(forms), 5)
                 /\ \A k \in 1..Len(found) :
                        found[k].formType = StatedFormType(forms[k].signals)

\* The subtype given to the one form of a page whose field names hold
\* exactly the keywords S, on every page of the run that is such a page.
OnlyFormIs(i, S, subtypes) ==
    LET forms == FormsOf(rendered[i].doc)
        found == FormFeaturesOf(rendered[i].features)
    IN  (variant \in Chromium /\ Len(forms) = 1 /\ forms[1].nInputs > 0
            /\ forms[1].signals = S)
          => (Len(found) = 1 /\ found[1].formType \in subtypes)

\* C18: field text "email password" is classified login; field text "email
\* password confirm" is never login and, holding "confirm", is classified
\* registration (with "register" too); two forms of the same field text get
\* the same subtype.
C18_ConfirmIsNotLogin ==
    \A i \in 1..Len(rendered) :
        /\ OnlyFormIs(i, {"email", "password"}, {"login"})
        /\ OnlyFormIs(i, {"email", "password", "confirm"}, {"registration"})
        /\ OnlyFormIs(i, {"email", "password", "confirm", "register"}, {"registration"})
        /\ \A j \in 1..Len(rendered) :
              LET fi == FormsOf(rendered[i].doc)
                  fj == FormsOf(rendered[j].doc)
              IN  (variant \in Chromium /\ Len(fi) = 1 /\ Len(fj) = 1
                      /\ fi[1].nInputs > 0 /\ fi[1] = fj[1])
                    => FormFeaturesOf(rendered[i].features)[1].formType
                         = FormFeaturesOf(rendered[j].features)[1].formType

\* The subtype the stated rule order assigns to a button whose text holds
\* the keywords S.
StatedButtonType(S) ==
    IF S \cap {"add", "create", "new"} # {} THEN "create"
    ELSE IF S \cap {"edit", "update", "modify"} # {} THEN "update"
    ELSE IF S \cap {"delete", "remove"} # {} THEN "delete"
    ELSE IF S \cap {"export", "download"} # {} THEN "export"
    ELSE IF S \cap {"filter", "sort"} # {} THEN "filter"
    ELSE "action"

ButtonsOf(doc) == SelectSeq(doc, LAMBDA e : e.tag = "button")

ButtonFeaturesOf(fs) == SelectSeq(fs, LAMBDA f : f.type = "button")

\* The subtype a feature record carries: formType, the only classification
\* field the extractor writes.
Subtype(f) == f.formType

\* C19: each extracted button carries the subtype of the first matching
\* rule in the order create, update, delete, export, filter, action ("Add
\* to Cart" and "Add to filter" are create), and the test cases built from
\* two buttons of different subtypes differ in their category.
C19_ButtonSubtype ==
    \A i \in 1..Len(rendered) :
        LET buttons == ButtonsOf(rendered[i].doc)
            found == ButtonFeaturesOf(rendered[i].features)
        IN  (variant \in Chromium /\ Len(found) = Len(buttons))
              => /\ \A k \in 1..Len(found) :
                        Subtype(found[k]) = StatedButtonType(buttons[k].signals)
                 /\ AnsweredTests
                      => \A k, l \in 1..Len(found) :
                            (/\ StatedButtonType(buttons[k].signals)
                                    # StatedButtonType(buttons[l].signals)
                             /\ k <= Len(TestsOfKind("button"))
                             /\ l <= Len(TestsOfKind("button")))
                               => TestsOfKind("button")[k].category
                                     # TestsOfKind("button")[l].category

\* The cap the extractor of a variant is configured with, per kind: forms 5,
\* buttons 15 or 30, links 15 or 25 (the larger value where a variant names
\* none).
StatedCap(v, kind) ==
    CASE kind = "form" -> 5
      [] kind = "button" -> IF v \in {"index", "part001"} THEN 15 ELSE 30
      [] OTHER -> IF v \in {"index", "part001"} THEN 15 ELSE 25

\* The elements of a document a feature kind is extracted from.
ElemsOfKind(doc, kind) ==
    SelectSeq(doc, LAMBDA e : e.tag = (CASE kind = "form" -> "form"
                                         [] kind = "button" -> "button"
                                         [] OTHER -> "a"))

\* The display text of a feature (the simplified server keeps it as the
\* parts of its template string).
TextOf(v, f) == IF v = "simple" THEN f.text[1] ELSE f.text

\* The features of kind "button" or "link" were taken from the first cap
\* elements of the document, in document order (texts are told apart when
\* the document repeats none).
InDocumentOrder(v, doc, fs, kind) ==
    LET elems == ElemsOfKind(doc, kind)
        found == SelectSeq(fs, LAMBDA f : f.type = kind)
        Pos(f) == CHOOSE p \in 1..Len(elems) : elems[p].text = TextOf(v, f)
    IN  (\A p, q \in 1..Len(elems) : elems[p].text = elems[q].text => p = q)
          => /\ \A a \in 1..Len(found) :
                   /\ \E p \in 1..Len(elems) : elems[p].text = TextOf(v, found[a])
                   /\ Pos(found[a]) <= StatedCap(v, kind)
             /\ \A a, b \in 1..Len(found) : a < b => Pos(found[a]) < Pos(found[b])

\* C20: for every page, the extractor emits at most the configured cap of
\* features of each kind (forms 5; buttons 15 or 30 and links 15 or 25
\* depending on the variant), taken in document order.
C20_ExtractorCaps ==
    \A i \in 1..Len(rendered) :
        /\ \A kind \in {"form", "button", "link"} :
              Len(SelectSeq(rendered[i].features, LAMBDA f : f.type = kind))
                 <= StatedCap(variant, kind)
        /\ \A kind \in {"button", "link"} :
              InDocumentOrder(variant, rendered[i].doc, rendered[i].features, kind)

\* The elements of a document whose reading does not throw.
Readable(doc) == SelectSeq(doc, LAMBDA e : e.itype # "throws")

\* C21: when reading one element of a page throws, the features of the
\* other elements of that page, before and after it, are still emitted: the
\* page yields what it would yield without the bad element.
C21_BadElementSkipped ==
    \A i \in 1..Len(rendered) :
        (variant \in Chromium /\ ElementThrows(rendered[i].doc))
          => /\ rendered[i].features
                  = pageFeatures(variant, Readable(rendered[i].doc), rendered[i].url)
             /\ \A k \in 1..Len(rendered[i].features) :
                    rendered[i].features[k] \in Range(features)

\* The credential-shaped inputs of a document that lie outside any form.
CredentialInputs(doc) ==
    SelectSeq(doc, LAMBDA e : e.tag = "input" /\ e.itype \in {"email", "text", "password"})

EmailShaped(e) == e.itype = "email" \/ "mail" \in e.signals

PasswordShaped(e) == e.itype = "password" \/ "password" \in e.signals

\* C22: the extractor of part_000 synthesizes a virtual login form for a
\* page whenever at least 2 credential-shaped inputs lie outside any form
\* and an email-shaped and a password-shaped one are among them, and never
\* otherwise.
C22_VirtualLoginForm ==
    \A i \in 1..Len(rendered) :
        LET bare == CredentialInputs(rendered[i].doc)
            virtual == SelectSeq(rendered[i].features,
                                 LAMBDA f : f.type = "form"
                                            /\ f.purpose = "Login Form (Virtual)")
        IN  (variant = "part000" /\ ~ElementThrows(rendered[i].doc))
              => Len(virtual)
                   = IF /\ Len(bare) >= 2
                        /\ \E k \in 1..Len(bare) : EmailShaped(bare[k])
                        /\ \E k \in 1..Len(bare) : PasswordShaped(bare[k])
                       THEN 1 ELSE 0

\* loginConfig holds a loginUrl and a credential pair under one of the two
\* naming conventions.
LoginWanted ==
    LET cfg == body.loginConfig
    IN  /\ cfg.present
        /\ ~Falsy(cfg.loginUrl)
        /\ \/ ~Falsy(cfg.username) /\ ~Falsy(cfg.password)
           \/ ~Falsy(cfg.testUsername) /\ ~Falsy(cfg.testPassword)

\* C23: the script reaches its page loop after a login attempt exactly when
\* loginConfig has a loginUrl and a credential pair under either naming
\* convention; without them no login step ever runs and loginSuccess stays
\* false, in the script and in the answer.
C23_LoginWhenConfigured ==
    variant \in Chromium
        => /\ spc = "loop" => (LoginWanted <=> lstate # "Idle")
           /\ ~LoginWanted
                => /\ lstate = "Idle" /\ typed = {} /\ submits = <<>>
                   /\ ~loginSuccess
                   /\ \A i \in 1..Len(responses) : ~responses[i].loginSuccess

\* What a tag says, whatever the order its attributes are written in.
Markup(e) ==
    [tag |-> e.tag, text |-> e.text, href |-> e.href,
     itype |-> IF e.attrs = <<>> THEN e.itype ELSE "",
     name |-> IF e.attrs = <<>> THEN e.name ELSE "",
     attrs |-> Range(e.attrs)]

\* The elements of a fetched page that became features, in feature order.
Observations(doc) ==
    SelectSeq(doc, LAMBDA e : e.tag = "a" /\ ~Falsy(e.href) /\ e.tlen > 0
                              /\ e.href \notin JsHrefs /\ e.href \notin HashHrefs)
    \o SelectSeq(doc, LAMBDA e : e.tag = "button" /\ e.tlen > 0)
    \o SelectSeq(doc, LAMBDA e : e.tag = "input" /\ ~Falsy(e.itype))

\* C24: in the fetch variant, two observations of the same markup, on any
\* pages, at any positions and with the attributes in any order, carry
\* equal fingerprints.
C24_FingerprintStable ==
    variant = "simple" =>
        \A i, j \in 1..Len(rendered) :
            \A k \in 1..Len(rendered[i].features), l \in 1..Len(rendered[j].features) :
                Markup(Observations(rendered[i].doc)[k])
                    = Markup(Observations(rendered[j].doc)[l])
                  => rendered[i].features[k].fingerprint
                        = rendered[j].features[l].fingerprint

\* C25: reconciling the reconciled list changes nothing:
\* deduplicateFeatures(deduplicateFeatures(L)) = deduplicateFeatures(L),
\* for the list L of everything the request extracted.
C25_DedupIdempotent ==
    Reconciled =>
        /\ uniqueFeatures = deduplicateFeatures(features)
        /\ deduplicateFeatures(uniqueFeatures) = uniqueFeatures

C25_Witness ==
    /\ Reconciled
    /\ Len(uniqueFeatures) > 1
    /\ Len(uniqueFeatures) + 1 < Len(features)

Priorities == {"Low", "Medium", "High", "Critical"}

\* C26: every test case of an answer has a priority among Low, Medium, High
\* and Critical, and a test case written for one feature is never Critical.
C26_PriorityDomain ==
    AnsweredTests =>
        \A k \in 1..Len(responses[1].tests) :
            /\ responses[1].tests[k].priority \in Priorities
            /\ responses[1].tests[k].priority # "Critical"

\* C27: in src/index.js and src/index-simple.js the pages started so far are
\* the first target URLs in list order, each of them has finished or failed
\* (one outcome per started page) before the next one starts, and when a
\* login was configured no page is started before Verified(success).
C27_SequentialPages ==
    variant \in {"index", "simple"} =>
        /\ Len(visited) <= Len(targetUrls)
        /\ visited = SubSeq(targetUrls, 1, Len(visited))
        /\ Len(pageLog) = Len(visited)
        /\ pc \in {"script", "loop"} => idx = Len(visited) + 1
        /\ (variant = "index" /\ visited # <<>>) =>
              lstate = IF LoginWanted THEN "VerifiedSuccess" ELSE "Idle"

C27_Witness ==
    /\ variant = "index"
    /\ LoginWanted
    /\ lstate = "VerifiedSuccess"
    /\ Len(visited) = 2
    /\ pageLog = <<"failed", "ok">>

\* What request r answers when it is the only request: a function of the
\* pages it was given alone.
AloneTests(r) ==
    IF requests[r].variant = "simple"
      THEN generateTestCases(deduplicateFeatures(requests[r].got))
      ELSE generateTestCasesFromFeatures(requests[r].got)

\* C28: however two requests interleave, the test cases each one answers
\* (and so the features and dedup sets behind them) are those it produces
\* when run alone.
C28_RequestsIsolated ==
    \A r \in Requests :
        requests[r].pc = "done" => requests[r].tests = AloneTests(r)

C28_Witness ==
    /\ \A r \in Requests : requests[r].pc = "done" /\ requests[r].tests # <<>>
    /\ requests[1].variant = "simple" /\ requests[2].variant = "index"
    /\ Len(heap[1].allFeatures) > 3 /\ heap[2].seen # {}

\* The moves of the login orchestrator along its chain of states.
ChainMoves ==
    { <<"Idle", "NavigatedToLogin">>, <<"NavigatedToLogin", "FieldsLocated">>,
      <<"FieldsLocated", "Submitted">>, <<"Submitted", "VerifiedSuccess">>,
      <<"Submitted", "VerifiedFailure">> }

\* One step of a request, seen from the login orchestrator: the state moves
\* only by one of the given moves (so none is revisited and Verified is
\* final), the fields are filled at most once and at most one submit is
\* made, and in Verified(failure) no page was visited, no feature exists
\* and no answer carries a test case.
LoginStep(moves) ==
    /\ lstate' # lstate => <<lstate, lstate'>> \in moves
    /\ typed' # typed => typed = {} /\ lstate' = "Submitted"
    /\ submits' # submits => submits = <<>> /\ Len(submits') = 1 /\ lstate' = "Submitted"
    /\ lstate' = "VerifiedFailure" =>
          /\ visited' = <<>>
          /\ features' = <<>>
          /\ \A i \in 1..Len(responses') :
                ~responses'[i].success /\ responses'[i].tests = <<>>

\* C29 as stated: the orchestrator moves only from one state of the chain
\* Idle, NavigatedToLogin, FieldsLocated, Submitted, Verified to the next,
\* skipping and revisiting none; navigate, fill and submit happen at most
\* once; Verified is final; after Verified(failure) no features are emitted.
C29_NoStateSkipped == [][LoginStep(ChainMoves)]_vars

\* C29 amended: as above, except that the exhaustion of a selector list
\* takes NavigatedToLogin directly to Verified(failure).
C29_LoginChain ==
    [][LoginStep(ChainMoves \cup {<<"NavigatedToLogin", "VerifiedFailure">>})]_vars

C29_Witness ==
    /\ pc = "done"
    /\ lstate = "VerifiedFailure"
    /\ usernameInput # 0 /\ passwordInput = 0
    /\ body.loginConfig.present

\* Signal (a): a visible error-styled element whose text holds a failure keyword.
ErrorShown == postSubmit.err = "visible"

\* Signal (b): a password field still present at a login or auth URL.
StillOnLogin == postSubmit.pwd /\ postSubmit.authUrl

\* C30: in src/index.js and part_000, after a submit by any path (selector
\* click, generic click, Enter) the verification ends in Verified(failure)
\* exactly when signal (a) or signal (b) holds, otherwise in
\* Verified(success).
C30_VerificationSignals ==
    (variant \in {"index", "part000"} /\ submits # <<>>
        /\ lstate \in {"VerifiedSuccess", "VerifiedFailure"})
      => (lstate = "VerifiedFailure" <=> (ErrorShown \/ StillOnLogin))

\* The three tiers of selectors: 1 attribute name, 2 placeholder or
\* aria-label substring, 3 generic type-based fallback; 0 for the others
\* (id, class), about which nothing is said.
Tier(kind) ==
    CASE kind \in {"name", "name*"} -> 1
      [] kind \in {"placeholder", "aria"} -> 2
      [] kind \in {"type", "fallback"} -> 3
      [] OTHER -> 0

\* The list is ordered by tier.
TierOrdered(selectors) ==
    \A i, j \in 1..Len(selectors) :
        (i < j /\ Tier(selectors[i]) > 0 /\ Tier(selectors[j]) > 0)
            => Tier(selectors[i]) <= Tier(selectors[j])

\* found is the first selector that matches without throwing (0: none
\* does), and no matching selector of a better tier was passed over.
FirstAndBest(selectors, matching, throwing, found) ==
    LET live == {i \in 1..Len(selectors) :
                    selectors[i] \in matching /\ selectors[i] \notin throwing}
    IN  /\ found = 0 <=> live = {}
        /\ found # 0 =>
              /\ found \in live
              /\ \A j \in live : found <= j
              /\ \A j \in live :
                    (Tier(selectors[j]) > 0 /\ Tier(selectors[found]) > 0)
                        => Tier(selectors[found]) <= Tier(selectors[j])

\* C31: in src/index.js and part_000, once the fields were probed: each
\* list was tried in order, the first selector that matches without throwing
\* won, the lists hold the attribute-name selectors before the placeholder
\* and aria-label selectors and those before the type-based ones, so that a
\* field found by attribute name is preferred to one found by type only.
C31_ProbeOrder ==
    (variant \in {"index", "part000"} /\ Probed) =>
        /\ TierOrdered(usernameSelectors(variant))
        /\ TierOrdered(passwordSelectors(variant))
        /\ FirstAndBest(usernameSelectors(variant), loginPage.user,
                        loginPage.throwing, usernameInput)
        /\ FirstAndBest(passwordSelectors(variant), loginPage.pass,
                        loginPage.throwing, passwordInput)

\* C32: in src/index.js, once a submit was made it is the only one, both
\* fields were filled before it, and it is a click when a submit selector
\* matched, a click found by the generic text search when only that
\* matched, and Enter in the password field only when neither matched.
C32_OneSubmit ==
    (variant = "index" /\ submits # <<>>) =>
        /\ Len(submits) = 1
        /\ typed = {"username", "password"}
        /\ usernameInput # 0 /\ passwordInput # 0
        /\ submits[1] = CASE loginPage.submit = "selector" -> "click"
                          [] loginPage.submit = "generic" -> "generic-click"
                          [] OTHER -> "enter"

C32_Witness ==
    /\ variant = "index"
    /\ submits = <<"enter">>
    /\ loginPage.submit = "none"
    /\ lstate = "VerifiedSuccess"
    /\ visited # <<>>

\* The login sequence of the script was left by an exception: the login
\* page did not load (the orchestrator never left Idle), or a step after
\* the probes threw (it stopped in FieldsLocated or Submitted).
LoginThrew ==
    /\ variant \in Chromium
    /\ LoginRequested(variant, body.loginConfig)
    /\ spc = "end"
    /\ lstate \in {"Idle", "FieldsLocated", "Submitted"}

\* C33: when the navigation to loginUrl fails or a step of the login
\* sequence throws, no target URL is visited, the script returns an error
\* with no features and loginSuccess false, and the answer, once sent, has
\* success:false and a message.
C33_LoginErrorIsFatal ==
    LoginThrew =>
        /\ visited = <<>>
        /\ result.error # "" /\ result.features = <<>> /\ ~result.loginSuccess
        /\ \A i \in 1..Len(responses) :
              /\ ~responses[i].success
              /\ responses[i].message # ""
              /\ responses[i].tests = <<>>

C33_Witness ==
    /\ LoginThrew
    /\ lstate = "Idle"
    /\ pc = "done"
    /\ Len(responses) = 1
    /\ responses[1].status = 500

\* C34: in src/index.js, part_001 and src/index-simple.js an answer carries
\* loginSuccess true only when a login was configured, both fields were
\* located, a submit was made and the page after the submit shows no
\* failure signal; the script's own loginSuccess obeys the same rule.
C34_LoginSuccessMeansVerified ==
    (variant \in {"index", "part001", "simple"}
        /\ (loginSuccess \/ \E i \in 1..Len(responses) : responses[i].loginSuccess))
      => /\ LoginRequested(variant, body.loginConfig)
         /\ usernameInput # 0 /\ passwordInput # 0
         /\ submits # <<>>
         /\ ~ErrorShown /\ ~StillOnLogin

\* The attempts of a traced page that return at least one feature.
FullAttempts(e, url) ==
    {k \in 1..Len(e.docs) :
        k # e.throwAt /\ ~ElementThrows(e.docs[k])
        /\ Len(pageFeatures(variant, e.docs[k], url)) > 0}

\* The attempts of a traced page whose page.evaluate throws.
ThrowingAttempts(e) ==
    {k \in 1..Len(e.docs) : k = e.throwAt \/ ElementThrows(e.docs[k])}

\* The number of extraction attempts when the retry ends at the first of
\* the given attempts, and after the third attempt when there is none.
StopsAt(ends) == IF ends = {} THEN 3 ELSE CHOOSE k \in ends : \A j \in ends : k <= j

\* What holds of a page whose retry ends at the given attempt: the step ran
\* once to three times, a wait came before each further attempt only, the
\* page contributes the features of a successful last attempt and none
\* otherwise, and the loop goes on with the next page.
RetryEndsAt(i, last) ==
    LET e == attemptLog[i]
    IN  /\ e.attempts >= 1 /\ e.attempts <= 3
        /\ e.attempts = last
        /\ e.waits = e.attempts - 1
        /\ e.features = IF last \in FullAttempts(e, visited[i])
                          THEN pageFeatures(variant, e.docs[last], visited[i])
                          ELSE <<>>
        /\ spc = "end" => Len(visited) = Len(targetUrls)

\* C35 as stated: for each page the extraction step runs at least once and
\* at most three times and stops at the first attempt that returns a
\* feature, or after the third empty attempt.
C35_RetryOnEveryPage ==
    \A i \in 1..Len(attemptLog) :
        RetryEndsAt(i, StopsAt(FullAttempts(attemptLog[i], visited[i])))

\* C35 amended: the same for each page that loaded, the retry ending also
\* at the first attempt that throws; a page that did not load has no
\* extraction attempt.
C35_RetryOnLoadedPage ==
    \A i \in 1..Len(attemptLog) :
        IF attemptLog[i].loaded
          THEN RetryEndsAt(i, StopsAt(FullAttempts(attemptLog[i], visited[i])
                                        \cup ThrowingAttempts(attemptLog[i])))
          ELSE /\ attemptLog[i].attempts = 0 /\ attemptLog[i].waits = 0
               /\ attemptLog[i].features = <<>>

C35_Witness ==
    /\ Len(attemptLog) = 2
    /\ attemptLog[1].loaded /\ attemptLog[1].attempts = 3 /\ attemptLog[1].waits = 2
    /\ attemptLog[1].features = <<>> /\ attemptLog[1].throwAt = 0
    /\ attemptLog[2].attempts = 2 /\ attemptLog[2].features # <<>>
    /\ pc = "done"

\* The pages of the run that loaded and were extracted without an error.
PagesSucceeded == Len(SelectSeq(pageLog, LAMBDA o : o = "ok"))

\* C36: in src/index.js and src/index-simple.js the pagesAnalyzed of an
\* answer is the number of pages whose navigation and extraction
\* succeeded, and the script reports 0 after a failed login verification.
C36_PagesAnalyzedCountsSuccesses ==
    variant \in {"index", "simple"} =>
        /\ \A i \in 1..Len(responses) :
              responses[i].success => responses[i].pagesAnalyzed = PagesSucceeded
        /\ (lstate = "VerifiedFailure" /\ submits # <<>>) => result.pagesAnalyzed = 0

\* The request is in, or has completed, its page loop: it passed the
\* validation and was not stopped by the configuration or by the login.
InPageLoop ==
    \/ variant \in Chromium /\ pc = "script" /\ spc = "loop"
    \/ variant = "simple" /\ pc = "loop"

PageLoopCompleted ==
    \/ variant \in Chromium /\ spc = "end" /\ result.error = "" /\ lstate # "VerifiedFailure"
    \/ variant = "simple" /\ pc = "done" /\ Len(responses) = 1 /\ responses[1].success

\* C37: the target list handed to the page loop is not empty and holds no
\* blank or undefined entry, and a completed page loop has visited at least
\* one target URL.
C37_TargetsNeverEmpty ==
    /\ InPageLoop =>
          /\ Len(targetUrls) > 0
          /\ \A i \in 1..Len(targetUrls) : ~Falsy(targetUrls[i])
    /\ PageLoopCompleted => Len(visited) > 0

\* The list a request supplies next to url: pages (part_000) or urls.
SuppliedList ==
    IF variant = "part000" /\ Len(pagesOf(body)) > 0 THEN pagesOf(body) ELSE urlsOf(body)

\* C38: when the body holds url and a non-empty list, the targets of the
\* page loop are url followed by the entries of the list in their order.
C38_UrlThenList ==
    (pc # "start" /\ Len(responses) = 0 /\ ~Falsy(body.url) /\ Len(SuppliedList) > 0)
        => targetUrls = <<body.url>> \o SuppliedList

\* How many of the test cases emitted so far were built from one kind of feature.
KindCount(tests, kind) == Len(SelectSeq(tests, LAMBDA t : t.kind = kind))

\* The tests and the seen set of the synthesizer when features.forEach
\* reaches feature i of the returned list.
SynthBefore(i) ==
    SynthFrom(SubSeq(result.features, 1, i - 1), [tests |-> <<>>, seen |-> {}])

\* The cap the specification gives the test cases of one kind.
KindCap(kind) == IF kind = "button" THEN ButtonTestLimit ELSE LinkTestLimit

\* C39: in the synthesizer a button (a link) whose key was not seen before is
\* dropped exactly when 30 (40) test cases of its own kind were emitted
\* before it, whatever the number of test cases of other kinds, and a form
\* whose key was not seen before is never dropped.
C39_DroppedByOwnKindOnly ==
    (variant \in Chromium /\ AnsweredTests)
        => \A i \in 1..Len(result.features) :
             LET f == result.features[i]
                 st == SynthBefore(i)
             IN  SeenKey(f) \notin st.seen
                   => CASE f.type = "form" -> SynthStep(st, f) # st
                        [] f.type \in {"button", "link"} ->
                             (SynthStep(st, f) = st)
                                <=> (KindCount(st.tests, f.type) >= KindCap(f.type))
                        [] OTHER -> TRUE

====
